---- MODULE Spec2Model ----
(***************************************************************************)
(* Verification model of axios-interceptor-plus.                           *)
(*                                                                         *)
(*   RequestManager  (src/src/utils/requestManager.ts)  -- SpecRM          *)
(*   CircuitBreaker  (src/unnamed/part_003)             -- SpecCB          *)
(*   RetryHandler    (src/src/utils/retry.ts)           -- SpecRetry       *)
(*   AuthHandler     (src/src/utils/auth.ts)            -- SpecAuth        *)
(*   ServiceFactory  (src/unnamed/part_001), with the                      *)
(*     ErrorHandler  (src/unnamed/part_005)             -- SpecService     *)
(*   TokenManager    (src/src/utils/tokenManager.ts)    -- SpecTM          *)
(*   CacheManager    (src/src/utils/cache.ts)           -- SpecCache       *)
(*   RequestManager with updateConfig                   -- SpecRMCfg       *)
(*   TokenManager rotation, with its counters           -- SpecRot         *)
(*   CacheManager.get suspended at its awaits           -- SpecCacheRace   *)
(*   MiddlewareManager (src/unnamed/part_005)           -- SpecMW          *)
(*                                                                         *)
(* Time is Date.now() in milliseconds; the clock advances in steps of      *)
(* TickMs.  Timers (setTimeout / setInterval) may fire at or after their   *)
(* due time, as in the JavaScript event loop.  The settling of a promise   *)
(* and the reactions chained on it form one step: the handlers never read  *)
(* the state of the underlying call, so running them later is the same as  *)
(* the call settling later.                                                *)
(***************************************************************************)
EXTENDS Integers, Sequences, FiniteSets, TLC

\* ------------------------------------------------------------------ bounds
MaxCalls == 3          \* executeRequest calls in one run
MaxTicks == 2          \* clock steps in one run
CeilingUnderTest == 2  \* the configured maxConcurrentRequests
Keys == {"GET:/a:{}:{}", "GET:/b:{}:{}"}   \* values of getRequestKey
MaxOps == 5            \* CircuitBreaker.execute calls in one run
FailureThresholdUnderTest == 2   \* the configured failureThreshold
SuccessThresholdUnderTest == 2   \* the configured successThreshold
MaxRetryCalls == 2     \* executeWithRetry calls in one run
MaxRetriesUnderTest == 2         \* the largest configured maxRetries
RandomSteps == 4       \* Math.random() takes the values k / RandomSteps
MaxHandlers == 3       \* handleAuthError calls in one run
MaxServiceCalls == 1   \* service requests in one run
MaxTokenRefreshes == 2 \* TokenManager.refreshToken calls in one run
MaxSizeUnderTest == 2  \* the configured cache maxSize
MaxUsage == 2          \* uses of one token counted in one run
MaxRotations == 2      \* rotateToken calls in one run
MaxPendingGets == 1    \* CacheManager.get calls suspended at one time
MaxMiddlewaresUnderTest == 2     \* the configured maxMiddlewares
MaxErrorCalls == 2     \* executeErrorMiddlewares calls in one run

\* ------------------------------------------------- program constants (RM)
CleanupIntervalMs == 60000
HistoryRetentionMs == 86400000
DefaultRequestTimeout == 30000

\* ------------------------------------------------- program constants (CB)
DefaultOpenTimeout == 60000
DefaultResetTimeout == 30000

\* ---------------------------------------------- program constants (Retry)
MaxDelayMs == 30000        \* Math.min(..., 30000)
DefaultRetryDelay == 1000  \* retryConfig.retryDelay of the default configuration
JitterDivisor == 10        \* jitter = Math.random() * 0.1 * exponentialDelay

RefreshedLifetimeMs == 3600000   \* expiresAt: Date.now() + (3600 * 1000)

TickMs == CleanupIntervalMs \div 2   \* granularity of the clock, in ms
MaxTime == MaxTicks * TickMs

VARIABLES
  now,          \* Date.now()
  rm,           \* the RequestManager object (fields of the class)
  transport,    \* requestFn invocations: id -> "running" | "resolved" | "rejected"
  timer,        \* per-request timeout timer: id -> [state, due]
  callers,      \* executeRequest calls in order; the call's index stands for
                \* its generateRequestId() value (taken to be unique)
  nextCleanup,  \* due time of the next setInterval cleanup
  obs           \* observations used by the properties (history of the run)

varsRM == <<rm, transport, timer, callers, nextCleanup, obs>>

VARIABLES
  cb,           \* the CircuitBreaker object (fields of the class)
  running,      \* operations awaited by execute, by the state that admitted them
  cbObs         \* observations used by the properties (history of the run)

varsCB == <<cb, running, cbObs>>

VARIABLES
  rh,           \* the RetryHandler object (its config)
  calls         \* executeWithRetry calls: position in the loop, locals, history

varsRetry == <<rh, calls>>

VARIABLES
  auth,         \* the AuthHandler object (config, isRefreshing, refreshPromise)
  refreshes,    \* performTokenRefresh invocations, in order
  handlers      \* handleAuthError invocations, in order

varsAuth == <<auth, refreshes, handlers>>

VARIABLES
  svc,          \* the service's configuration (interceptors, errorConfig)
  wire          \* per service call: where its current attempt stands

varsSvc == <<svc, wire>>

VARIABLES
  tm,           \* the TokenManager object (tokens, primaryToken, fallbackTokens)
  tmRefreshes,  \* the performTokenRefresh calls in flight: the names refreshed
  tmObs         \* what the latest addAuthHeader call returned

varsTM == <<tm, tmRefreshes, tmObs>>

VARIABLES
  cm,           \* one CacheManager per storage backend, given the same calls
  cacheTimer,   \* due time of the next setInterval cleanup of the managers
  cmObs         \* what the latest get call returned, per backend, and the
                \* backends whose store it changed

varsCache == <<cm, cacheTimer, cmObs>>

VARIABLES
  rot           \* TokenManager: rotationConfig.enabled, rotationStrategy, the
                \* usage and error counters, and what the latest rotateToken
                \* call returned

varsRot == <<rot>>

VARIABLES
  gets          \* CacheManager: the get calls suspended at an await, with
                \* the entry each has read and the time it read it

varsGets == <<gets>>

VARIABLES
  mw            \* the MiddlewareManager object and its executeErrorMiddlewares
                \* call

varsMW == <<mw>>

\* ------------------------------------------------------------ map helpers
Remove(f, k) == [x \in DOMAIN f \ {k} |-> f[x]]
Put(f, k, v) == [x \in DOMAIN f \cup {k} |-> IF x = k THEN v ELSE f[x]]
MinOf(S) == CHOOSE x \in S : \A y \in S : x <= y

\* A promise settles once: later resolve/reject calls are ignored.
SettlePromise(cur, v) == IF cur = "pending" THEN v ELSE cur

\* requestHistory.find(entry => entry.id === requestId) ... status = st
SetHistoryStatus(h, requestId, st) ==
  IF \E i \in 1..Len(h) : h[i].id = requestId
  THEN LET i == MinOf({j \in 1..Len(h) : h[j].id = requestId})
       IN [h EXCEPT ![i].status = st]
  ELSE h

RECURSIVE FilterSeq(_, _)
FilterSeq(h, cutoff) ==
  IF h = <<>> THEN <<>>
  ELSE IF Head(h).startTime > cutoff
       THEN <<Head(h)>> \o FilterSeq(Tail(h), cutoff)
       ELSE FilterSeq(Tail(h), cutoff)

\* ------------------------------------------------------- RequestManager
RMConfigs ==
  [enabled : BOOLEAN, deduplication : BOOLEAN,
   maxConcurrentRequests : {CeilingUnderTest},
   requestTimeout : {DefaultRequestTimeout}]

InitStats ==
  [totalRequests |-> 0, activeRequests |-> 0, completedRequests |-> 0,
   cancelledRequests |-> 0, deduplicatedRequests |-> 0,
   errorRate |-> [num |-> 0, den |-> 1]]

\* updateErrorRate: errorRate = (#history entries with status 'error') / total
UpdateErrorRate(s) ==
  LET totalRequests == s.stats.completedRequests + s.stats.cancelledRequests
      errorCount == Cardinality({i \in 1..Len(s.requestHistory) :
                                    s.requestHistory[i].status = "error"})
  IN IF totalRequests > 0
     THEN [s EXCEPT !.stats.errorRate = [num |-> errorCount, den |-> totalRequests]]
     ELSE s

\* handleRequestSuccess without its "already settled" guard
HandleRequestSuccessUnguarded(s, requestId) ==
  LET inFlight == requestId \in DOMAIN s.pendingRequests
  IN [s EXCEPT !.stats.activeRequests = @ - 1,
               !.stats.completedRequests = @ + 1,
               !.requestHistory = SetHistoryStatus(@, requestId, "completed"),
               !.pendingRequests = Remove(@, requestId),
               !.deduplicationMap = IF inFlight
                                    THEN Remove(@, s.pendingRequests[requestId].key)
                                    ELSE @,
               !.promise[requestId] = SettlePromise(@, "resolved")]

HandleRequestSuccess(s, requestId) ==
  IF requestId \notin DOMAIN s.pendingRequests THEN s
  ELSE LET request == s.pendingRequests[requestId]
       IN [s EXCEPT !.stats.activeRequests = @ - 1,
                    !.stats.completedRequests = @ + 1,
                    !.requestHistory = SetHistoryStatus(@, requestId, "completed"),
                    !.pendingRequests = Remove(@, requestId),
                    !.deduplicationMap = Remove(@, request.key),
                    !.promise[requestId] = SettlePromise(@, "resolved")]

HandleRequestError(s, requestId) ==
  IF requestId \notin DOMAIN s.pendingRequests THEN s
  ELSE LET request == s.pendingRequests[requestId]
           s1 == [s EXCEPT !.stats.activeRequests = @ - 1,
                           !.stats.completedRequests = @ + 1]
           s2 == UpdateErrorRate(s1)
       IN [s2 EXCEPT !.requestHistory = SetHistoryStatus(@, requestId, "error"),
                     !.pendingRequests = Remove(@, requestId),
                     !.deduplicationMap = Remove(@, request.key),
                     !.promise[requestId] = SettlePromise(@, "error")]

\* handleRequestCancellation without this.stats.activeRequests--
HandleRequestCancellationKeepsActive(s, requestId) ==
  IF requestId \notin DOMAIN s.pendingRequests THEN s
  ELSE LET request == s.pendingRequests[requestId]
       IN [s EXCEPT !.stats.cancelledRequests = @ + 1,
                    !.requestHistory = SetHistoryStatus(@, requestId, "cancelled"),
                    !.pendingRequests = Remove(@, requestId),
                    !.deduplicationMap = Remove(@, request.key),
                    !.promise[requestId] = SettlePromise(@, "cancelled")]

HandleRequestCancellation(s, requestId) ==
  IF requestId \notin DOMAIN s.pendingRequests THEN s
  ELSE LET request == s.pendingRequests[requestId]
       IN [s EXCEPT !.stats.activeRequests = @ - 1,
                    !.stats.cancelledRequests = @ + 1,
                    !.requestHistory = SetHistoryStatus(@, requestId, "cancelled"),
                    !.pendingRequests = Remove(@, requestId),
                    !.deduplicationMap = Remove(@, request.key),
                    !.promise[requestId] = SettlePromise(@, "cancelled")]

\* cancelRequest that only aborts the controller
CancelRequestAbortOnly(s, requestId) ==
  IF requestId \notin DOMAIN s.pendingRequests THEN s
  ELSE [s EXCEPT !.aborted[requestId] = TRUE]

\* cancelRequest(requestId): controller.abort() then handleRequestCancellation
CancelRequest(s, requestId) ==
  IF requestId \notin DOMAIN s.pendingRequests THEN s
  ELSE HandleRequestCancellation([s EXCEPT !.aborted[requestId] = TRUE], requestId)

\* for (const [requestId, request] of this.pendingRequests) { abort; cancel }
RECURSIVE CancelEach(_, _)
CancelEach(s, ids) ==
  IF ids = {} THEN s
  ELSE LET id == MinOf(ids)
       IN CancelEach(CancelRequest(s, id), ids \ {id})

CancelAllRequests(s) == CancelEach(s, DOMAIN s.pendingRequests)

ExpiredRequests(s, t) ==
  {id \in DOMAIN s.pendingRequests :
      t - s.pendingRequests[id].timestamp > s.config.requestTimeout}

CleanupExpiredRequests(s, t) ==
  LET s1 == CancelEach(s, ExpiredRequests(s, t))
  IN [s1 EXCEPT !.requestHistory = FilterSeq(@, t - HistoryRetentionMs)]

\* The dedup test of executeRequest (line 71)
IsDuplicate(s, key) == s.config.deduplication /\ key \in DOMAIN s.deduplicationMap

\* The concurrency test written with > instead of >=
AtCapacityOffByOne(s) ==
  Cardinality(DOMAIN s.pendingRequests) > s.config.maxConcurrentRequests

\* The concurrency test of executeRequest (line 78)
AtCapacity(s) == Cardinality(DOMAIN s.pendingRequests) >= s.config.maxConcurrentRequests

\* Registration that forgets the deduplication map
AdmitWithoutDedupEntry(s, requestId, key, t) ==
  [s EXCEPT !.pendingRequests = Put(@, requestId, [key |-> key, timestamp |-> t]),
            !.requestHistory = Append(@, [id |-> requestId, startTime |-> t,
                                          status |-> "pending"]),
            !.stats.totalRequests = @ + 1,
            !.stats.activeRequests = @ + 1,
            !.promise = Put(@, requestId, "pending"),
            !.aborted = Put(@, requestId, FALSE)]

\* Registration of an admitted request (lines 86-113)
Admit(s, requestId, key, t) ==
  [s EXCEPT !.pendingRequests = Put(@, requestId, [key |-> key, timestamp |-> t]),
            !.deduplicationMap = IF s.config.deduplication
                                 THEN Put(@, key, requestId) ELSE @,
            !.requestHistory = Append(@, [id |-> requestId, startTime |-> t,
                                          status |-> "pending"]),
            !.stats.totalRequests = @ + 1,
            !.stats.activeRequests = @ + 1,
            !.promise = Put(@, requestId, "pending"),
            !.aborted = Put(@, requestId, FALSE)]

\* ----------------------------------------------------------- RM: initial
InitRM ==
  /\ rm \in {[config |-> c, pendingRequests |-> <<>>, deduplicationMap |-> <<>>,
              requestHistory |-> <<>>, stats |-> InitStats,
              promise |-> <<>>, aborted |-> <<>>] : c \in RMConfigs}
  /\ transport = <<>>
  /\ timer = <<>>
  /\ callers = <<>>
  /\ nextCleanup = CleanupIntervalMs
  /\ obs = [cancelled |-> {}, timedOut |-> {}]

\* The outcome a caller observes.
Outcome(c) ==
  LET call == callers[c]
  IN CASE call.kind = "capacity" -> "capacity"
       [] call.kind = "direct" ->
            (CASE transport[c] = "running" -> "pending"
               [] transport[c] = "resolved" -> "resolved"
               [] OTHER -> "error")
       [] OTHER -> rm.promise[call.req]

\* Earlier calls with the same key whose outcome is still pending.
PendingTwins(key) ==
  {c \in 1..Len(callers) : callers[c].key = key /\ Outcome(c) = "pending"}

\* ----------------------------------------------------------- RM: actions
ExecuteRequest(key) ==
  /\ Len(callers) < MaxCalls
  /\ LET requestId == Len(callers) + 1
         info == [key |-> key,
                  twin |-> IF PendingTwins(key) = {} THEN 0 ELSE MinOf(PendingTwins(key)),
                  full |-> /\ Cardinality(DOMAIN rm.pendingRequests)
                                 = rm.config.maxConcurrentRequests
                           /\ ~(rm.config.deduplication
                                 /\ key \in DOMAIN rm.deduplicationMap)]
     IN IF ~rm.config.enabled
        THEN /\ callers' = Append(callers, info @@ [kind |-> "direct", req |-> requestId])
             /\ transport' = Put(transport, requestId, "running")
             /\ UNCHANGED <<rm, timer>>
        ELSE IF IsDuplicate(rm, key)
        THEN /\ callers' = Append(callers, info @@ [kind |-> "dedup",
                                                    req |-> rm.deduplicationMap[key]])
             /\ rm' = [rm EXCEPT !.stats.deduplicatedRequests = @ + 1]
             /\ UNCHANGED <<transport, timer>>
        ELSE IF AtCapacity(rm)
        THEN /\ callers' = Append(callers, info @@ [kind |-> "capacity", req |-> 0])
             /\ UNCHANGED <<rm, transport, timer>>
        ELSE /\ callers' = Append(callers, info @@ [kind |-> "admitted", req |-> requestId])
             /\ rm' = Admit(rm, requestId, key, now)
             /\ transport' = Put(transport, requestId, "running")
             /\ timer' = Put(timer, requestId,
                             [state |-> "armed", due |-> now + rm.config.requestTimeout])
  /\ UNCHANGED <<now, nextCleanup, obs, varsCB, varsRetry, varsAuth, varsSvc, varsTM, varsCache, varsRot, varsGets, varsMW>>

\* requestFn's promise settles: executeActualRequest clears the timer and the
\* reaction of executeRequest (lines 117-122) runs the matching handler.
RequestFnSettles(id, result) ==
  /\ id \in DOMAIN transport
  /\ transport[id] = "running"
  /\ transport' = [transport EXCEPT ![id] = result]
  /\ timer' = IF id \in DOMAIN timer /\ timer[id].state = "armed"
              THEN [timer EXCEPT ![id].state = "cleared"] ELSE timer
  /\ rm' = IF callers[id].kind = "direct" THEN rm
           ELSE IF result = "resolved"
           THEN HandleRequestSuccess(rm, id)
           ELSE HandleRequestError(rm, id)
  /\ UNCHANGED <<now, callers, nextCleanup, obs, varsCB, varsRetry, varsAuth, varsSvc, varsTM, varsCache, varsRot, varsGets, varsMW>>

\* setTimeout(() => controller.abort(), requestTimeout)
TimeoutFires(id) ==
  /\ id \in DOMAIN timer
  /\ timer[id].state = "armed"
  /\ now >= timer[id].due
  /\ timer' = [timer EXCEPT ![id].state = "fired"]
  /\ rm' = [rm EXCEPT !.aborted[id] = TRUE]
  /\ obs' = IF id \in DOMAIN rm.pendingRequests
            THEN [obs EXCEPT !.timedOut = @ \cup {id}] ELSE obs
  /\ UNCHANGED <<now, transport, callers, nextCleanup, varsCB, varsRetry, varsAuth, varsSvc, varsTM, varsCache, varsRot, varsGets, varsMW>>

CancelRequestCall(id) ==
  /\ id \in DOMAIN rm.pendingRequests
  /\ rm' = CancelRequest(rm, id)
  /\ obs' = [obs EXCEPT !.cancelled = @ \cup {id}]
  /\ UNCHANGED <<now, transport, timer, callers, nextCleanup, varsCB, varsRetry, varsAuth, varsSvc, varsTM, varsCache, varsRot, varsGets, varsMW>>

CancelAllRequestsCall ==
  /\ DOMAIN rm.pendingRequests # {}
  /\ rm' = CancelAllRequests(rm)
  /\ obs' = [obs EXCEPT !.cancelled = @ \cup DOMAIN rm.pendingRequests]
  /\ UNCHANGED <<now, transport, timer, callers, nextCleanup, varsCB, varsRetry, varsAuth, varsSvc, varsTM, varsCache, varsRot, varsGets, varsMW>>

\* setInterval(() => this.cleanupExpiredRequests(), 60000)
CleanupSweep ==
  /\ now >= nextCleanup
  /\ rm' = CleanupExpiredRequests(rm, now)
  /\ obs' = [obs EXCEPT !.cancelled = @ \cup ExpiredRequests(rm, now)]
  /\ nextCleanup' = nextCleanup + CleanupIntervalMs
  /\ UNCHANGED <<now, transport, timer, callers, varsCB, varsRetry, varsAuth, varsSvc, varsTM, varsCache, varsRot, varsGets, varsMW>>

TickRM ==
  /\ now < MaxTime
  /\ now' = now + TickMs
  /\ UNCHANGED <<varsRM, varsCB, varsRetry, varsAuth, varsSvc, varsTM, varsCache, varsRot, varsGets, varsMW>>

\* updateConfig(newConfig): this.config = { ...this.config, ...newConfig }
UpdateConfig(s, newConfig) ==
  [s EXCEPT !.config = [k \in DOMAIN @ |->
                          IF k \in DOMAIN newConfig THEN newConfig[k] ELSE @[k]]]

UpdateConfigCall(newConfig) ==
  /\ rm' = UpdateConfig(rm, newConfig)
  /\ UNCHANGED <<now, transport, timer, callers, nextCleanup, obs, varsCB, varsRetry, varsAuth, varsSvc, varsTM, varsCache, varsRot, varsGets, varsMW>>

NextRM ==
  \/ \E key \in Keys : ExecuteRequest(key)
  \/ \E id \in 1..MaxCalls : RequestFnSettles(id, "resolved")
  \/ \E id \in 1..MaxCalls : RequestFnSettles(id, "rejected")
  \/ \E id \in 1..MaxCalls : TimeoutFires(id)
  \/ \E id \in 1..MaxCalls : CancelRequestCall(id)
  \/ CancelAllRequestsCall
  \/ CleanupSweep
  \/ TickRM

\* the manager with updateConfig switching deduplication while requests are
\* in flight (the clock stands still: no timer is due)
NextRMCfg ==
  \/ \E key \in Keys : ExecuteRequest(key)
  \/ \E id \in 1..MaxCalls : RequestFnSettles(id, "resolved")
  \/ \E id \in 1..MaxCalls : RequestFnSettles(id, "rejected")
  \/ \E id \in 1..MaxCalls : CancelRequestCall(id)
  \/ \E dedup \in BOOLEAN : UpdateConfigCall([deduplication |-> dedup])

vars == <<now, varsRM, varsCB, varsRetry, varsAuth, varsSvc, varsTM, varsCache,
         varsRot, varsGets, varsMW>>

\* ------------------------------------------------------- CircuitBreaker
\* Fields kept: config, state, failureCount, successCount, lastFailureTime,
\* nextAttemptTime, totalRequests, totalFailures, totalSuccesses, resetTimer.
\* The fields lastSuccessTime and failureHistory are only written (and
\* reported by getStats); no decision of the class reads them, and neither
\* does any reader of lastFailureTime, which is kept as the record of when
\* the latest counted failure happened.
\* nextAttemptTime = 0 stands for undefined: the code tests it for
\* truthiness, and a set value is Date.now() + timeout > 0.
\* lastFailureTime = -1 stands for undefined (0 is a time of the clock).
ErrorKinds == {"network", "status4xx", "status5xx"}

CBConfigs ==
  [enabled : BOOLEAN,
   failureThreshold : {FailureThresholdUnderTest},
   successThreshold : {SuccessThresholdUnderTest},
   timeout : {DefaultOpenTimeout},
   resetTimeout : {DefaultResetTimeout},
   errorFilter : {"none", "status5xx"}]

NewBreaker(c) ==
  [config |-> c, state |-> "closed", failureCount |-> 0, successCount |-> 0,
   lastFailureTime |-> -1,
   nextAttemptTime |-> 0, totalRequests |-> 0, totalFailures |-> 0,
   totalSuccesses |-> 0, resetTimer |-> [armed |-> FALSE, due |-> 0]]

\* config.errorFilter: absent, or the README's (error) => error.response?.status >= 500
ErrorFilterRejects(b, err) ==
  b.config.errorFilter = "status5xx" /\ err # "status5xx"

\* canExecute with the time comparison reversed
CanExecuteReversed(b, t) ==
  IF ~b.config.enabled THEN <<TRUE, b>>
  ELSE CASE b.state = "closed" -> <<TRUE, b>>
         [] b.state = "open" ->
              IF b.nextAttemptTime # 0 /\ t <= b.nextAttemptTime
              THEN <<TRUE, [b EXCEPT !.state = "half-open", !.successCount = 0]>>
              ELSE <<FALSE, b>>
         [] OTHER -> <<TRUE, b>>

\* canExecute that keeps the old successCount when it goes half-open
CanExecuteKeepsCount(b, t) ==
  IF ~b.config.enabled THEN <<TRUE, b>>
  ELSE CASE b.state = "closed" -> <<TRUE, b>>
         [] b.state = "open" ->
              IF b.nextAttemptTime # 0 /\ t >= b.nextAttemptTime
              THEN <<TRUE, [b EXCEPT !.state = "half-open"]>>
              ELSE <<FALSE, b>>
         [] OTHER -> <<TRUE, b>>

\* canExecute(): <<returned value, breaker afterwards>>
CanExecute(b, t) ==
  IF ~b.config.enabled THEN <<TRUE, b>>
  ELSE CASE b.state = "closed" -> <<TRUE, b>>
         [] b.state = "open" ->
              IF b.nextAttemptTime # 0 /\ t >= b.nextAttemptTime
              THEN <<TRUE, [b EXCEPT !.state = "half-open", !.successCount = 0]>>
              ELSE <<FALSE, b>>
         [] OTHER -> <<TRUE, b>>

\* open(): clearTimeout(resetTimer); resetTimer = setTimeout(..., resetTimeout)
Open(b, t) ==
  [b EXCEPT !.state = "open",
            !.nextAttemptTime = t + b.config.timeout,
            !.resetTimer = [armed |-> TRUE, due |-> t + b.config.resetTimeout]]

Close(b) ==
  [b EXCEPT !.state = "closed", !.failureCount = 0, !.successCount = 0,
            !.nextAttemptTime = 0,
            !.resetTimer = [armed |-> FALSE, due |-> 0]]

\* onSuccess with > instead of >=
OnSuccessOffByOne(b) ==
  LET b1 == [b EXCEPT !.totalSuccesses = @ + 1]
  IN CASE b1.state = "half-open" ->
            LET b2 == [b1 EXCEPT !.successCount = @ + 1]
            IN IF b2.successCount > b2.config.successThreshold THEN Close(b2) ELSE b2
       [] b1.state = "closed" -> [b1 EXCEPT !.failureCount = 0]
       [] OTHER -> b1

OnSuccess(b) ==
  LET b1 == [b EXCEPT !.totalSuccesses = @ + 1]
  IN CASE b1.state = "half-open" ->
            LET b2 == [b1 EXCEPT !.successCount = @ + 1]
            IN IF b2.successCount >= b2.config.successThreshold THEN Close(b2) ELSE b2
       [] b1.state = "closed" -> [b1 EXCEPT !.failureCount = 0]
       [] OTHER -> b1

\* onFailure that applies the failure threshold in half-open as in closed
OnFailureHalfOpenThreshold(b, err, t) ==
  IF ErrorFilterRejects(b, err) THEN b
  ELSE LET b1 == [b EXCEPT !.totalFailures = @ + 1, !.lastFailureTime = t,
                            !.failureCount = @ + 1]
       IN IF b1.state \in {"closed", "half-open"}
             /\ b1.failureCount >= b1.config.failureThreshold
          THEN Open(b1, t) ELSE b1

OnFailure(b, err, t) ==
  IF ErrorFilterRejects(b, err) THEN b
  ELSE LET b1 == [b EXCEPT !.totalFailures = @ + 1, !.lastFailureTime = t,
                            !.failureCount = @ + 1]
       IN CASE b1.state = "closed" ->
                 IF b1.failureCount >= b1.config.failureThreshold
                 THEN Open(b1, t) ELSE b1
            [] b1.state = "half-open" -> Open(b1, t)
            [] OTHER -> b1

Reset(b) ==
  [b EXCEPT !.state = "closed", !.failureCount = 0, !.successCount = 0,
            !.lastFailureTime = -1, !.nextAttemptTime = 0,
            !.resetTimer = [armed |-> FALSE, due |-> 0]]

ForceOpen(b, t) ==
  [b EXCEPT !.state = "open", !.nextAttemptTime = t + b.config.timeout]

ForceClose(b) ==
  [b EXCEPT !.state = "closed", !.failureCount = 0, !.successCount = 0,
            !.nextAttemptTime = 0]

ForceHalfOpen(b) ==
  [b EXCEPT !.state = "half-open", !.successCount = 0, !.nextAttemptTime = 0]

\* ----------------------------------------------------------- CB: initial
InitCB ==
  /\ cb \in {NewBreaker(c) : c \in CBConfigs}
  /\ running = [closed |-> 0, halfOpen |-> 0]
  /\ cbObs = [calls |-> 0, rejected |-> 0, invoked |-> 0, streak |-> 0,
              last |-> [op |-> "new", from |-> "closed"]]

Slot(state) == IF state = "half-open" THEN "halfOpen" ELSE "closed"

\* ----------------------------------------------------------- CB: actions
\* execute(operation) up to the await of operation()
Execute ==
  /\ cbObs.calls < MaxOps
  /\ IF ~cb.config.enabled
     THEN /\ cbObs' = [cbObs EXCEPT !.calls = @ + 1, !.invoked = @ + 1,
                                    !.last = [op |-> "bypass", from |-> cb.state]]
          /\ UNCHANGED <<cb, running>>
     ELSE LET b1 == [cb EXCEPT !.totalRequests = @ + 1]
              check == CanExecute(b1, now)
          IN /\ cb' = check[2]
             /\ IF check[1]
                THEN /\ running' = [running EXCEPT ![Slot(check[2].state)] = @ + 1]
                     /\ cbObs' = [cbObs EXCEPT !.calls = @ + 1, !.invoked = @ + 1,
                                     !.last = [op |-> "admit", from |-> cb.state]]
                ELSE /\ running' = running
                     /\ cbObs' = [cbObs EXCEPT !.calls = @ + 1, !.rejected = @ + 1,
                                     !.last = [op |-> "reject", from |-> cb.state]]
  /\ UNCHANGED <<now, varsRM, varsRetry, varsAuth, varsSvc, varsTM, varsCache, varsRot, varsGets, varsMW>>

\* a direct call of the public canExecute()
CanExecuteCall ==
  /\ cb' = CanExecute(cb, now)[2]
  /\ cbObs' = [cbObs EXCEPT !.last = [op |-> "canExecute", from |-> cb.state]]
  /\ UNCHANGED <<now, running, varsRM, varsRetry, varsAuth, varsSvc, varsTM, varsCache, varsRot, varsGets, varsMW>>

\* operation() resolves: execute resumes with onSuccess()
OperationSucceeds(slot) ==
  /\ running[slot] > 0
  /\ running' = [running EXCEPT ![slot] = @ - 1]
  /\ cb' = OnSuccess(cb)
  /\ cbObs' = [cbObs EXCEPT !.streak = 0,
                            !.last = [op |-> "success", from |-> cb.state]]
  /\ UNCHANGED <<now, varsRM, varsRetry, varsAuth, varsSvc, varsTM, varsCache, varsRot, varsGets, varsMW>>

\* operation() rejects: execute resumes with onFailure(error)
OperationFails(slot, err) ==
  /\ running[slot] > 0
  /\ running' = [running EXCEPT ![slot] = @ - 1]
  /\ cb' = OnFailure(cb, err, now)
  /\ cbObs' = [cbObs EXCEPT
        !.streak = IF cb'.totalFailures = cb.totalFailures THEN @
                   ELSE IF cb.state = "closed" THEN @ + 1 ELSE 0,
        !.last = [op |-> IF cb'.totalFailures = cb.totalFailures
                         THEN "failure-filtered" ELSE "failure",
                  from |-> cb.state]]
  /\ UNCHANGED <<now, varsRM, varsRetry, varsAuth, varsSvc, varsTM, varsCache, varsRot, varsGets, varsMW>>

\* the setTimeout callback of open(): this.failureCount = 0
ResetTimerFires ==
  /\ cb.resetTimer.armed
  /\ now >= cb.resetTimer.due
  /\ cb' = [cb EXCEPT !.failureCount = 0, !.resetTimer.armed = FALSE]
  /\ cbObs' = [cbObs EXCEPT !.last = [op |-> "resetTimer", from |-> cb.state]]
  /\ UNCHANGED <<now, running, varsRM, varsRetry, varsAuth, varsSvc, varsTM, varsCache, varsRot, varsGets, varsMW>>

ResetCall ==
  /\ cb' = Reset(cb)
  /\ cbObs' = [cbObs EXCEPT !.streak = 0, !.last = [op |-> "reset", from |-> cb.state]]
  /\ UNCHANGED <<now, running, varsRM, varsRetry, varsAuth, varsSvc, varsTM, varsCache, varsRot, varsGets, varsMW>>

ForceOpenCall ==
  /\ cb' = ForceOpen(cb, now)
  /\ cbObs' = [cbObs EXCEPT !.streak = 0, !.last = [op |-> "forceOpen", from |-> cb.state]]
  /\ UNCHANGED <<now, running, varsRM, varsRetry, varsAuth, varsSvc, varsTM, varsCache, varsRot, varsGets, varsMW>>

ForceCloseCall ==
  /\ cb' = ForceClose(cb)
  /\ cbObs' = [cbObs EXCEPT !.streak = 0, !.last = [op |-> "forceClose", from |-> cb.state]]
  /\ UNCHANGED <<now, running, varsRM, varsRetry, varsAuth, varsSvc, varsTM, varsCache, varsRot, varsGets, varsMW>>

ForceHalfOpenCall ==
  /\ cb' = ForceHalfOpen(cb)
  /\ cbObs' = [cbObs EXCEPT !.streak = 0, !.last = [op |-> "forceHalfOpen", from |-> cb.state]]
  /\ UNCHANGED <<now, running, varsRM, varsRetry, varsAuth, varsSvc, varsTM, varsCache, varsRot, varsGets, varsMW>>

TickCB ==
  /\ now < MaxTime
  /\ now' = now + TickMs
  /\ UNCHANGED <<varsRM, varsCB, varsRetry, varsAuth, varsSvc, varsTM, varsCache, varsRot, varsGets, varsMW>>

NextCB ==
  \/ Execute
  \/ CanExecuteCall
  \/ \E slot \in {"closed", "halfOpen"} : OperationSucceeds(slot)
  \/ \E slot \in {"closed", "halfOpen"}, err \in ErrorKinds : OperationFails(slot, err)
  \/ ResetTimerFires
  \/ ResetCall
  \/ ForceOpenCall
  \/ ForceCloseCall
  \/ ForceHalfOpenCall
  \/ TickCB

\* --------------------------------------------------------- RetryHandler
\* An AxiosError as shouldRetry reads it: error.code and
\* error.response.status; status 0 stands for "no response".  A response
\* with a status outside 200..299 rejects; axios gives the codes
\* ERR_BAD_REQUEST to 4xx, ERR_BAD_RESPONSE to 5xx and none to other statuses.
NoError == [code |-> "no error", status |-> 0]

Errors ==
  {[code |-> "ECONNABORTED", status |-> 0],
   [code |-> "ETIMEDOUT", status |-> 0],
   [code |-> "ERR_NETWORK", status |-> 0],
   [code |-> "ERR_BAD_REQUEST", status |-> 404],
   [code |-> "ERR_BAD_REQUEST", status |-> 408],
   [code |-> "ERR_BAD_REQUEST", status |-> 429],
   [code |-> "ERR_BAD_RESPONSE", status |-> 500],
   [code |-> "ERR_BAD_RESPONSE", status |-> 599],
   [code |-> "undefined", status |-> 600]}

\* retryDelay: the default, and a base whose backoff crosses the 30 s cap
\* (14000, 28000 with jitter up to 30800, 56000)
RetryDelays == {DefaultRetryDelay, 14 * DefaultRetryDelay}

\* retryCondition and retryDelayFunction: absent ("none") or the functions
\* of the README's configuration example
RetryConfigs ==
  [enabled : BOOLEAN,
   maxRetries : 0..MaxRetriesUnderTest,
   retryDelay : RetryDelays,
   retryCondition : {"none", "readme"},
   retryDelayFunction : {"none", "readme"}]

\* (error) => error.response?.status >= 500 || !error.response
ReadmeRetryCondition(err) == err.status >= 500 \/ err.status = 0

\* shouldRetry whose status test is > 500
ShouldRetryAbove500(cfg, err) ==
  IF cfg.retryCondition # "none" THEN ReadmeRetryCondition(err)
  ELSE IF err.code \in {"ECONNABORTED", "ETIMEDOUT"} THEN TRUE
  ELSE IF err.status # 0
       THEN err.status > 500 \/ err.status = 408 \/ err.status = 429
       ELSE TRUE

ShouldRetry(cfg, err) ==
  IF cfg.retryCondition # "none" THEN ReadmeRetryCondition(err)
  ELSE IF err.code \in {"ECONNABORTED", "ETIMEDOUT"} THEN TRUE
  ELSE IF err.status # 0
       THEN err.status >= 500 \/ err.status = 408 \/ err.status = 429
       ELSE TRUE

\* Delays are kept in units of 1 / DelayScale ms, so that the jitter
\* Math.random() * 0.1 * exponentialDelay, with Math.random() = k / RandomSteps,
\* is the integer k * exponentialDelay.
DelayScale == JitterDivisor * RandomSteps

Smaller(a, b) == IF a <= b THEN a ELSE b

\* (retryCount) => Math.min(1000 * Math.pow(2, retryCount), 30000)
ReadmeRetryDelayFunction(attempt) ==
  Smaller(1000 * 2^attempt, 30000) * DelayScale

\* calculateDelay without the 30 s cap
CalculateDelayUncapped(cfg, attempt, k) ==
  IF cfg.retryDelayFunction # "none" THEN ReadmeRetryDelayFunction(attempt)
  ELSE LET baseDelay == cfg.retryDelay
           exponentialDelay == baseDelay * 2^attempt
           jitter == k * exponentialDelay
       IN exponentialDelay * DelayScale + jitter

CalculateDelay(cfg, attempt, k) ==
  IF cfg.retryDelayFunction # "none" THEN ReadmeRetryDelayFunction(attempt)
  ELSE LET baseDelay == cfg.retryDelay
           exponentialDelay == baseDelay * 2^attempt
           jitter == k * exponentialDelay
       IN Smaller(exponentialDelay * DelayScale + jitter, MaxDelayMs * DelayScale)

\* One executeWithRetry call.  pc: "idle" (not called yet), "passthrough"
\* (disabled handler: the caller holds requestFn's own promise), "requestFn"
\* (await requestFn()), "delay" (await this.delay(delay)), "resolved",
\* "rejected".  attempt and lastError are the locals of the call; delay is
\* the value handed to setTimeout; result is what the caller receives;
\* invocations and delays count the requestFn calls and the delays started.
NewCall ==
  [pc |-> "idle", attempt |-> 0, lastError |-> NoError, delay |-> 0,
   result |-> [kind |-> "pending", error |-> NoError],
   invocations |-> 0, delays |-> 0]

StartCall(cfg, c) ==
  IF ~cfg.enabled
  THEN [c EXCEPT !.pc = "passthrough", !.invocations = @ + 1]
  ELSE IF 0 <= cfg.maxRetries
       THEN [c EXCEPT !.attempt = 0, !.pc = "requestFn", !.invocations = @ + 1]
       ELSE [c EXCEPT !.pc = "rejected",
                      !.result = [kind |-> "error", error |-> c.lastError]]

\* a success that still throws the error of an earlier attempt
OnAttemptSucceededRethrows(c) ==
  IF c.lastError # NoError
  THEN [c EXCEPT !.pc = "rejected",
                 !.result = [kind |-> "error", error |-> c.lastError]]
  ELSE [c EXCEPT !.pc = "resolved",
                 !.result = [kind |-> "value", error |-> NoError]]

\* return await requestFn()  (or requestFn's promise resolving, when disabled)
OnAttemptSucceeded(c) ==
  [c EXCEPT !.pc = "resolved", !.result = [kind |-> "value", error |-> NoError]]

\* the catch block (or requestFn's promise rejecting, when disabled)
OnAttemptFailed(cfg, c, err, k) ==
  IF c.pc = "passthrough"
  THEN [c EXCEPT !.pc = "rejected", !.result = [kind |-> "error", error |-> err]]
  ELSE LET c1 == [c EXCEPT !.lastError = err]
       IN IF c1.attempt = cfg.maxRetries \/ ~ShouldRetry(cfg, c1.lastError)
          THEN [c1 EXCEPT !.pc = "rejected",
                          !.result = [kind |-> "error", error |-> c1.lastError]]
          ELSE [c1 EXCEPT !.pc = "delay",
                          !.delay = CalculateDelay(cfg, c1.attempt, k),
                          !.delays = @ + 1]

\* the delay ends without attempt++
OnDelayElapsedKeepsAttempt(cfg, c) ==
  LET c1 == [c EXCEPT !.delay = 0]
  IN IF c1.attempt <= cfg.maxRetries
     THEN [c1 EXCEPT !.pc = "requestFn", !.invocations = @ + 1]
     ELSE [c1 EXCEPT !.pc = "rejected",
                     !.result = [kind |-> "error", error |-> c1.lastError]]

\* the delay ends: attempt++, the loop test, the next requestFn() or the
\* throw after the loop
OnDelayElapsed(cfg, c) ==
  LET c1 == [c EXCEPT !.attempt = @ + 1, !.delay = 0]
  IN IF c1.attempt <= cfg.maxRetries
     THEN [c1 EXCEPT !.pc = "requestFn", !.invocations = @ + 1]
     ELSE [c1 EXCEPT !.pc = "rejected",
                     !.result = [kind |-> "error", error |-> c1.lastError]]

\* -------------------------------------------------------- Retry: initial
InitRetry ==
  /\ rh \in {[config |-> c] : c \in RetryConfigs}
  /\ calls = [c \in 1..MaxRetryCalls |-> NewCall]

\* -------------------------------------------------------- Retry: actions
\* calls are numbered in the order they are made
ExecuteWithRetry(c) ==
  /\ calls[c].pc = "idle"
  /\ \A d \in 1..(c - 1) : calls[d].pc # "idle"
  /\ calls' = [calls EXCEPT ![c] = StartCall(rh.config, @)]
  /\ UNCHANGED <<now, rh, varsRM, varsCB, varsAuth, varsSvc, varsTM, varsCache, varsRot, varsGets, varsMW>>

AttemptResolves(c) ==
  /\ calls[c].pc \in {"requestFn", "passthrough"}
  /\ calls' = [calls EXCEPT ![c] = OnAttemptSucceeded(@)]
  /\ UNCHANGED <<now, rh, varsRM, varsCB, varsAuth, varsSvc, varsTM, varsCache, varsRot, varsGets, varsMW>>

AttemptRejects(c, err) ==
  /\ calls[c].pc \in {"requestFn", "passthrough"}
  /\ \E k \in 0..(RandomSteps - 1) :
        calls' = [calls EXCEPT ![c] = OnAttemptFailed(rh.config, @, err, k)]
  /\ UNCHANGED <<now, rh, varsRM, varsCB, varsAuth, varsSvc, varsTM, varsCache, varsRot, varsGets, varsMW>>

DelayElapses(c) ==
  /\ calls[c].pc = "delay"
  /\ calls' = [calls EXCEPT ![c] = OnDelayElapsed(rh.config, @)]
  /\ UNCHANGED <<now, rh, varsRM, varsCB, varsAuth, varsSvc, varsTM, varsCache, varsRot, varsGets, varsMW>>

NextRetry ==
  \/ \E c \in 1..MaxRetryCalls : ExecuteWithRetry(c)
  \/ \E c \in 1..MaxRetryCalls : AttemptResolves(c)
  \/ \E c \in 1..MaxRetryCalls, err \in Errors : AttemptRejects(c, err)
  \/ \E c \in 1..MaxRetryCalls : DelayElapses(c)

\* ---------------------------------------------------------- AuthHandler
\* refreshPromise = 0 stands for null; a promise is named by the index of
\* the performTokenRefresh invocation that returned it.
\* config.refreshToken: "absent", or present with enabled false / true.
AuthConfigs ==
  [enabled : BOOLEAN,
   refreshToken : {"absent", "disabled", "enabled"},
   onTokenExpired : BOOLEAN]

NewAuthHandler(c) == [config |-> c, isRefreshing |-> FALSE, refreshPromise |-> 0]

\* error.response.status of the errors handed to handleAuthError; 0 stands
\* for an error without a response
AuthStatuses == {0, 401, 403, 500}

\* performTokenRefresh: "getRefreshToken" (await getRefreshToken()), "fetch"
\* (await fetch(refreshEndpoint) and response.json()), then settled:
\* "token" (resolved with a token), "null" (resolved with a falsy value),
\* "threw" (rejected).  fetches counts the calls of the refresh endpoint.
NewRefresh == [state |-> "getRefreshToken", fetches |-> 0]
Unsettled == {"getRefreshToken", "fetch"}

\* one handleAuthError invocation: pc "awaitRefresh" (await
\* this.refreshToken()) or "done"; refresh is the promise it awaits, owner
\* whether its refreshToken() call runs the try/finally; the rest records
\* what it did: setToken called, onTokenExpired / removeToken called,
\* handleForbidden called; during is the refresh that was unsettled when the
\* error was handled (0: none).
NewHandler(status, pending) ==
  [status |-> status, pc |-> "done", refresh |-> 0, owner |-> FALSE,
   during |-> pending, setToken |-> FALSE, expired |-> "none",
   forbidden |-> FALSE]

\* "If refresh failed or not enabled, handle token expiration"
Expire(a, h) ==
  [h EXCEPT !.pc = "done",
            !.expired = IF a.config.onTokenExpired THEN "onTokenExpired"
                        ELSE "removeToken"]

\* refreshToken() up to its await
RefreshToken(a, rs) ==
  IF a.isRefreshing /\ a.refreshPromise # 0
  THEN [auth |-> a, refreshes |-> rs, promise |-> a.refreshPromise, owner |-> FALSE]
  ELSE [auth |-> [a EXCEPT !.isRefreshing = TRUE, !.refreshPromise = Len(rs) + 1],
        refreshes |-> Append(rs, NewRefresh),
        promise |-> Len(rs) + 1, owner |-> TRUE]

\* handleUnauthorized that calls performTokenRefresh whatever the guard says
HandleUnauthorizedAlwaysRefreshes(a, rs, h) ==
  IF a.config.refreshToken = "enabled"
  THEN [auth |-> [a EXCEPT !.isRefreshing = TRUE, !.refreshPromise = Len(rs) + 1],
        refreshes |-> Append(rs, NewRefresh),
        handler |-> [h EXCEPT !.pc = "awaitRefresh", !.refresh = Len(rs) + 1,
                              !.owner = TRUE]]
  ELSE [auth |-> a, refreshes |-> rs, handler |-> Expire(a, h)]

\* handleUnauthorized() up to its first await
HandleUnauthorized(a, rs, h) ==
  IF a.config.refreshToken = "enabled" /\ ~a.isRefreshing
  THEN LET r == RefreshToken(a, rs)
       IN [auth |-> r.auth, refreshes |-> r.refreshes,
           handler |-> [h EXCEPT !.pc = "awaitRefresh", !.refresh = r.promise,
                                 !.owner = r.owner]]
  ELSE [auth |-> a, refreshes |-> rs, handler |-> Expire(a, h)]

\* refreshToken whose guard is released only when the promise resolved
RefreshTokenExitOnReturnOnly(a, owner, outcome) ==
  IF owner /\ outcome # "threw"
  THEN [a EXCEPT !.isRefreshing = FALSE, !.refreshPromise = 0]
  ELSE a

\* refreshToken() after its await: the finally block
RefreshTokenExit(a, owner, outcome) ==
  IF owner THEN [a EXCEPT !.isRefreshing = FALSE, !.refreshPromise = 0] ELSE a

\* handleUnauthorized() after await this.refreshToken()
AfterRefresh(a, h, outcome) ==
  IF outcome = "token"
  THEN [h EXCEPT !.pc = "done", !.setToken = TRUE]
  ELSE Expire(a, h)

\* --------------------------------------------------------- Auth: initial
InitAuth ==
  /\ auth \in {NewAuthHandler(c) : c \in AuthConfigs}
  /\ refreshes = <<>>
  /\ handlers = <<>>

PendingRefresh ==
  IF auth.refreshPromise # 0 /\ refreshes[auth.refreshPromise].state \in Unsettled
  THEN auth.refreshPromise ELSE 0

\* --------------------------------------------------------- Auth: actions
\* handleAuthError(error) up to its first await; pending is the refresh that
\* is unsettled when the error arrives
OnAuthError(a, rs, status, pending) ==
  LET h == NewHandler(status, pending)
  IN IF ~a.config.enabled \/ status = 0
     THEN [auth |-> a, refreshes |-> rs, handler |-> h]
     ELSE IF status = 401 THEN HandleUnauthorized(a, rs, h)
     ELSE IF status = 403
     THEN [auth |-> a, refreshes |-> rs, handler |-> [h EXCEPT !.forbidden = TRUE]]
     ELSE [auth |-> a, refreshes |-> rs, handler |-> h]

HandleAuthError(status) ==
  /\ Len(handlers) < MaxHandlers
  /\ LET r == OnAuthError(auth, refreshes, status, PendingRefresh)
     IN /\ auth' = r.auth
        /\ refreshes' = r.refreshes
        /\ handlers' = Append(handlers, r.handler)
  /\ UNCHANGED <<now, varsRM, varsCB, varsRetry, varsSvc, varsTM, varsCache, varsRot, varsGets, varsMW>>

\* performTokenRefresh: getRefreshToken() returned; without a refresh token
\* it throws, otherwise it calls the refresh endpoint
GetRefreshTokenReturns(r, found) ==
  /\ r \in 1..Len(refreshes)
  /\ refreshes[r].state = "getRefreshToken"
  /\ refreshes' = [refreshes EXCEPT ![r] =
        IF found THEN [@ EXCEPT !.state = "fetch", !.fetches = @ + 1]
        ELSE [@ EXCEPT !.state = "threw"]]
  /\ UNCHANGED <<now, auth, handlers, varsRM, varsCB, varsRetry, varsSvc, varsTM, varsCache, varsRot, varsGets, varsMW>>

\* performTokenRefresh: the endpoint answered (ok with a token, ok without
\* one, or not ok / network error)
FetchSettles(r, outcome) ==
  /\ r \in 1..Len(refreshes)
  /\ refreshes[r].state = "fetch"
  /\ refreshes' = [refreshes EXCEPT ![r].state = outcome]
  /\ UNCHANGED <<now, auth, handlers, varsRM, varsCB, varsRetry, varsSvc, varsTM, varsCache, varsRot, varsGets, varsMW>>

\* the awaited refresh promise has settled: refreshToken() runs its finally
\* and handleUnauthorized() goes on
RefreshTokenReturns(h) ==
  /\ h \in 1..Len(handlers)
  /\ handlers[h].pc = "awaitRefresh"
  /\ refreshes[handlers[h].refresh].state \notin Unsettled
  /\ LET outcome == refreshes[handlers[h].refresh].state
         a1 == RefreshTokenExit(auth, handlers[h].owner, outcome)
     IN /\ auth' = a1
        /\ handlers' = [handlers EXCEPT ![h] = AfterRefresh(a1, @, outcome)]
  /\ UNCHANGED <<now, refreshes, varsRM, varsCB, varsRetry, varsSvc, varsTM, varsCache, varsRot, varsGets, varsMW>>

NextAuth ==
  \/ \E status \in AuthStatuses : HandleAuthError(status)
  \/ \E r \in 1..MaxHandlers, found \in BOOLEAN : GetRefreshTokenReturns(r, found)
  \/ \E r \in 1..MaxHandlers, outcome \in {"token", "null", "threw"} :
        FetchSettles(r, outcome)
  \/ \E h \in 1..MaxHandlers : RefreshTokenReturns(h)


\* -------------------------------------------------------- ServiceFactory
\* A service made by createService: its own axios instance whose requestFn
\* is handed to executeWithRetry.  errorInterceptor is config.interceptors
\* .error (absent, or the README's example); transformError is
\* errorConfig.transformError of the ErrorHandler (absent or configured).
ServiceConfigs ==
  [transformError : BOOLEAN, errorInterceptor : {"none", "readme"}]

\* what the transport answers to a failing attempt
ServiceErrors ==
  {[code |-> "ERR_BAD_REQUEST", status |-> 401],
   [code |-> "ERR_BAD_REQUEST", status |-> 403],
   [code |-> "ERR_BAD_RESPONSE", status |-> 500]}

\* new Error('Authentication required'): neither code nor response
PlainError == [code |-> "undefined", status |-> 0]

\* error: (error) => { if (error.response?.status === 401) { throw new
\* Error('Authentication required'); } throw error; }
ReadmeErrorInterceptor(err) ==
  [settles |-> "rejects", error |-> IF err.status = 401 THEN PlainError ELSE err]

\* ErrorHandler.handleError: with transformError configured it returns the
\* transformed error, so its promise resolves; otherwise Promise.reject(error)
HandleError(s, err) ==
  IF s.transformError
  THEN [settles |-> "resolves", error |-> err]
  ELSE [settles |-> "rejects", error |-> err]

\* the response error interceptor after await handleAuthError(error)
ResponseErrorInterceptor(s, err) ==
  IF s.errorInterceptor # "none" THEN ReadmeErrorInterceptor(err)
  ELSE HandleError(s, err)

\* one service call's attempt: at "none" (no failed response being handled)
\* or "handleAuthError" (the error interceptor awaits handleAuthError); error
\* is the response error of the latest failed attempt, handler the
\* handleAuthError invocation being awaited; handlers are all the invocations made for this call; last is
\* how the transport answered the latest attempt; transformed counts the
\* calls of transformError.
NewWire ==
  [at |-> "none", error |-> NoError, handler |-> 0, handlers |-> {},
   last |-> "none", transformed |-> 0]

MaxServiceHandlers == MaxServiceCalls * (MaxRetriesUnderTest + 1)

InitService ==
  /\ svc \in ServiceConfigs
  /\ wire = [c \in 1..MaxRetryCalls |-> NewWire]

\* the attempt's request got a 2xx response: the response interceptor
\* returns it and requestFn resolves
ResponseSucceeds(c) ==
  /\ calls[c].pc \in {"requestFn", "passthrough"}
  /\ wire[c].at = "none"
  /\ calls' = [calls EXCEPT ![c] = OnAttemptSucceeded(@)]
  /\ wire' = [wire EXCEPT ![c].last = "ok"]
  /\ UNCHANGED <<now, svc, rh, varsRM, varsCB, varsAuth, varsTM, varsCache, varsRot, varsGets, varsMW>>

\* the attempt's request failed: the response error interceptor starts with
\* await this.authHandler.handleAuthError(error)
ResponseFails(c, err) ==
  /\ calls[c].pc \in {"requestFn", "passthrough"}
  /\ wire[c].at = "none"
  /\ LET r == OnAuthError(auth, refreshes, err.status, PendingRefresh)
         h == Len(handlers) + 1
     IN /\ auth' = r.auth
        /\ refreshes' = r.refreshes
        /\ handlers' = Append(handlers, r.handler)
        /\ wire' = [wire EXCEPT ![c] =
                      [@ EXCEPT !.at = "handleAuthError", !.error = err,
                                !.handler = h, !.handlers = @ \cup {h},
                                !.last = "error"]]
  /\ UNCHANGED <<now, svc, calls, rh, varsRM, varsCB, varsTM, varsCache, varsRot, varsGets, varsMW>>

\* handleAuthError returned: the custom error interceptor or handleError
\* settles requestFn's promise, and executeWithRetry goes on
ErrorInterceptorSettles(c) ==
  /\ wire[c].at = "handleAuthError"
  /\ handlers[wire[c].handler].pc = "done"
  /\ LET out == ResponseErrorInterceptor(svc, wire[c].error)
     IN /\ IF out.settles = "resolves"
           THEN calls' = [calls EXCEPT ![c] = OnAttemptSucceeded(@)]
           ELSE \E k \in 0..(RandomSteps - 1) :
                   calls' = [calls EXCEPT ![c] =
                               OnAttemptFailed(rh.config, @, out.error, k)]
        /\ wire' = [wire EXCEPT ![c] =
                      [@ EXCEPT !.at = "none", !.handler = 0,
                                !.transformed =
                                   IF svc.errorInterceptor = "none" /\ svc.transformError
                                   THEN @ + 1 ELSE @]]
  /\ UNCHANGED <<now, svc, rh, varsRM, varsCB, varsAuth, varsTM, varsCache, varsRot, varsGets, varsMW>>

NextService ==
  \/ \E c \in 1..MaxServiceCalls : ExecuteWithRetry(c)
  \/ \E c \in 1..MaxServiceCalls : ResponseSucceeds(c)
  \/ \E c \in 1..MaxServiceCalls, err \in ServiceErrors : ResponseFails(c, err)
  \/ \E c \in 1..MaxServiceCalls : ErrorInterceptorSettles(c)
  \/ \E c \in 1..MaxServiceCalls : DelayElapses(c)
  \/ \E r \in 1..MaxServiceHandlers, found \in BOOLEAN : GetRefreshTokenReturns(r, found)
  \/ \E r \in 1..MaxServiceHandlers, outcome \in {"token", "null", "threw"} :
        FetchSettles(r, outcome)
  \/ \E h \in 1..MaxServiceHandlers : RefreshTokenReturns(h)


\* ---------------------------------------------------------- TokenManager
\* A TokenConfig as the manager reads it: expiresAt (NoExpiry stands for an
\* absent expiresAt) and whether it carries a refreshToken.  The tokens Map is
\* kept as the sequence of its entries in insertion order.  The usage and
\* error counters, which only rotateByPriority reads, are kept in rot and
\* followed in SpecRot, where rotateToken is called.
NoExpiry == -1

\* the names given to addToken; primaryToken starts as 'default', a name
\* under which nothing is registered
TokenNames == {"primary", "backup"}

TokenConfigs == [expiresAt : {NoExpiry, TickMs}, refreshToken : BOOLEAN]

NoToken == [name |-> "null", expiresAt |-> NoExpiry, refreshToken |-> FALSE]

Entry(name, cfg) ==
  [name |-> name, expiresAt |-> cfg.expiresAt, refreshToken |-> cfg.refreshToken]

Has(tokens, name) == \E i \in 1..Len(tokens) : tokens[i].name = name

\* Map.set: an existing key keeps its place, a new key goes last
MapSet(tokens, name, cfg) ==
  IF Has(tokens, name)
  THEN [i \in 1..Len(tokens) |->
          IF tokens[i].name = name THEN Entry(name, cfg) ELSE tokens[i]]
  ELSE Append(tokens, Entry(name, cfg))

\* getToken(name): this.tokens.get(tokenName) || null
GetToken(t, name) ==
  IF Has(t.tokens, name)
  THEN t.tokens[CHOOSE i \in 1..Len(t.tokens) : t.tokens[i].name = name]
  ELSE NoToken

\* isTokenValid read with <= in place of <
IsTokenValidAtExpiry(token, time) ==
  IF token.expiresAt = NoExpiry THEN TRUE ELSE time <= token.expiresAt

IsTokenValid(token, time) ==
  IF token.expiresAt = NoExpiry THEN TRUE ELSE time < token.expiresAt

RECURSIVE FirstValidFallback(_, _, _)
\* the for loop of getValidToken over this.fallbackTokens
FirstValidFallback(t, names, time) ==
  IF names = <<>> THEN NoToken
  ELSE LET fallback == GetToken(t, Head(names))
       IN IF fallback # NoToken /\ IsTokenValid(fallback, time) THEN fallback
          ELSE FirstValidFallback(t, Tail(names), time)

GetValidToken(t, time) ==
  LET primary == GetToken(t, t.primaryToken)
  IN IF primary # NoToken /\ IsTokenValid(primary, time) THEN primary
     ELSE FirstValidFallback(t, t.fallbackTokens, time)

\* addAuthHeader: the token it used and whether it merged an auth header
\* into config.headers
AddAuthHeaderResult(t, time) ==
  LET token == GetValidToken(t, time)
  IN [token |-> token, headers |-> IF token = NoToken THEN "unchanged" ELSE "merged"]

AddTokenTo(t, name, cfg) ==
  [t EXCEPT !.tokens = MapSet(@, name, cfg)]

RemoveTokenFrom(t, name) ==
  LET rest == SelectSeq(t.tokens, LAMBDA e : e.name # name)
  IN [t EXCEPT !.tokens = rest,
               !.primaryToken = IF @ = name
                                THEN IF rest = <<>> THEN "default" ELSE rest[1].name
                                ELSE @,
               !.fallbackTokens = SelectSeq(@, LAMBDA n : n # name)]

\* ----------------------------------------------------------- TM: initial
InitTM ==
  /\ tm = [tokens |-> <<>>, primaryToken |-> "default", fallbackTokens |-> <<>>]
  /\ tmRefreshes = <<>>
  /\ tmObs = [token |-> NoToken, headers |-> "none"]

\* ----------------------------------------------------------- TM: actions
AddToken(name, cfg) ==
  /\ tm' = AddTokenTo(tm, name, cfg)
  /\ UNCHANGED <<now, tmRefreshes, tmObs, varsRM, varsCB, varsRetry, varsAuth, varsSvc, varsCache, varsRot, varsGets, varsMW>>

RemoveToken(name) ==
  /\ tm' = RemoveTokenFrom(tm, name)
  /\ UNCHANGED <<now, tmRefreshes, tmObs, varsRM, varsCB, varsRetry, varsAuth, varsSvc, varsCache, varsRot, varsGets, varsMW>>

SetPrimaryToken(name) ==
  /\ tm' = IF Has(tm.tokens, name) THEN [tm EXCEPT !.primaryToken = name] ELSE tm
  /\ UNCHANGED <<now, tmRefreshes, tmObs, varsRM, varsCB, varsRetry, varsAuth, varsSvc, varsCache, varsRot, varsGets, varsMW>>

AddFallbackToken(name) ==
  /\ tm' = IF /\ Has(tm.tokens, name)
              /\ \A i \in 1..Len(tm.fallbackTokens) : tm.fallbackTokens[i] # name
           THEN [tm EXCEPT !.fallbackTokens = Append(@, name)] ELSE tm
  /\ UNCHANGED <<now, tmRefreshes, tmObs, varsRM, varsCB, varsRetry, varsAuth, varsSvc, varsCache, varsRot, varsGets, varsMW>>

AddAuthHeaderCall ==
  /\ tmObs' = AddAuthHeaderResult(tm, now)
  /\ UNCHANGED <<now, tm, tmRefreshes, varsRM, varsCB, varsRetry, varsAuth, varsSvc, varsCache, varsRot, varsGets, varsMW>>

\* refreshToken(tokenName) up to its await: null without a token or a
\* refreshToken, else performTokenRefresh(token) is started
RefreshTokenCall(name) ==
  /\ Len(tmRefreshes) < MaxTokenRefreshes
  /\ LET token == GetToken(tm, name)
     IN tmRefreshes' = IF token = NoToken \/ ~token.refreshToken
                       THEN tmRefreshes ELSE Append(tmRefreshes, name)
  /\ UNCHANGED <<now, tm, tmObs, varsRM, varsCB, varsRetry, varsAuth, varsSvc, varsCache, varsRot, varsGets, varsMW>>

\* performTokenRefresh resolved: this.tokens.set(tokenName, newToken) with
\* expiresAt = Date.now() + 3600 * 1000
PerformTokenRefreshResolves(r) ==
  /\ r \in 1..Len(tmRefreshes)
  /\ tmRefreshes' = SubSeq(tmRefreshes, 1, r - 1)
                       \o SubSeq(tmRefreshes, r + 1, Len(tmRefreshes))
  /\ tm' = [tm EXCEPT !.tokens =
              MapSet(@, tmRefreshes[r],
                     [expiresAt |-> now + RefreshedLifetimeMs, refreshToken |-> TRUE])]
  /\ UNCHANGED <<now, tmObs, varsRM, varsCB, varsRetry, varsAuth, varsSvc, varsCache, varsRot, varsGets, varsMW>>

TickTM ==
  /\ now < MaxTime
  /\ now' = now + TickMs
  /\ UNCHANGED <<varsRM, varsCB, varsRetry, varsAuth, varsSvc, varsTM, varsCache, varsRot, varsGets, varsMW>>

NextTM ==
  \/ \E name \in TokenNames, cfg \in TokenConfigs : AddToken(name, cfg)
  \/ \E name \in TokenNames : RemoveToken(name)
  \/ \E name \in TokenNames : SetPrimaryToken(name)
  \/ \E name \in TokenNames : AddFallbackToken(name)
  \/ AddAuthHeaderCall
  \/ \E name \in TokenNames : RefreshTokenCall(name)
  \/ \E r \in 1..MaxTokenRefreshes : PerformTokenRefreshResolves(r)
  \/ TickTM


\* ---------------------------------------------------------- CacheManager
\* One manager per storage backend, in a browser (window is defined, so
\* localStorage and indexedDB are there); each call is made to every manager,
\* and runs to completion before the next call.  memoryCache is the Map of
\* the class, in insertion order; external is what the manager keeps in
\* localStorage (under the cache_ prefix) or in the indexedDB object store.
Storages == {"memory", "localStorage", "indexedDB"}

CacheKeys == {"k1", "k2", "k3"}

\* the ttl under test is one clock tick, so that reads fall before, on and
\* after timestamp + ttl
TtlUnderTest == TickMs

CacheConfigs ==
  [enabled : BOOLEAN, ttl : {TtlUnderTest}, maxSize : {MaxSizeUnderTest}]

\* an AxiosResponse as the cache reads it: its status, and a body, which is
\* taken to name the request (the key) it answers
Statuses == {200, 304}

Responses == [status : Statuses, body : CacheKeys]

\* get returning null
Absent == [status |-> 0, body |-> "null"]

NoEntry == [key |-> "null", data |-> Absent, timestamp |-> 0, ttl |-> 0]

NewCacheManager(cfg, storage) ==
  [config |-> [enabled |-> cfg.enabled, storage |-> storage, ttl |-> cfg.ttl,
               maxSize |-> cfg.maxSize],
   memoryCache |-> <<>>, external |-> <<>>]

\* the switch (this.config.storage) of getEntry, setEntry, delete, getKeys
Store(m) == IF m.config.storage = "memory" THEN m.memoryCache ELSE m.external

WithStore(m, entries) ==
  IF m.config.storage = "memory" THEN [m EXCEPT !.memoryCache = entries]
  ELSE [m EXCEPT !.external = entries]

KeysOf(entries) == {entries[i].key : i \in 1..Len(entries)}

GetEntry(m, key) ==
  IF key \in KeysOf(Store(m))
  THEN Store(m)[CHOOSE i \in 1..Len(Store(m)) : Store(m)[i].key = key]
  ELSE NoEntry

\* Map.set, localStorage.setItem, store.put: a key that is there keeps its
\* place
SetEntry(m, entry) ==
  WithStore(m,
    IF entry.key \in KeysOf(Store(m))
    THEN [i \in 1..Len(Store(m)) |->
            IF Store(m)[i].key = entry.key THEN entry ELSE Store(m)[i]]
    ELSE Append(Store(m), entry))

Delete(m, key) == WithStore(m, SelectSeq(Store(m), LAMBDA e : e.key # key))

Clear(m) == WithStore(m, <<>>)

\* isExpired read with >= in place of >
IsExpiredAtTtl(entry, time) == time - entry.timestamp >= entry.ttl

IsExpired(entry, time) == time - entry.timestamp > entry.ttl

ShouldCache(response) == response.status >= 200 /\ response.status < 300

\* enforceMaxSize: the entries of memoryCache sorted by timestamp (a stable
\* sort, so entries of one timestamp stay in insertion order), the first
\* size - maxSize of them deleted
EnforceMaxSize(m) ==
  LET entries == m.memoryCache
      size == Len(entries)
      Before(j, i) ==
        \/ entries[j].timestamp < entries[i].timestamp
        \/ entries[j].timestamp = entries[i].timestamp /\ j < i
      Position(i) == Cardinality({j \in 1..size : Before(j, i)})
      toRemove == {entries[i].key : i \in {j \in 1..size :
                                            Position(j) < size - m.config.maxSize}}
  IN IF size > m.config.maxSize
     THEN [m EXCEPT !.memoryCache = SelectSeq(entries, LAMBDA e : e.key \notin toRemove)]
     ELSE m

\* get that answers null for an expired entry and leaves it stored
GetKeepsExpiredEntry(m, key, time) ==
  IF ~m.config.enabled THEN [manager |-> m, result |-> Absent]
  ELSE LET entry == GetEntry(m, key)
       IN IF entry = NoEntry THEN [manager |-> m, result |-> Absent]
          ELSE IF IsExpired(entry, time) THEN [manager |-> m, result |-> Absent]
          ELSE [manager |-> m, result |-> entry.data]

Get(m, key, time) ==
  IF ~m.config.enabled THEN [manager |-> m, result |-> Absent]
  ELSE LET entry == GetEntry(m, key)
       IN IF entry = NoEntry THEN [manager |-> m, result |-> Absent]
          ELSE IF IsExpired(entry, time)
          THEN [manager |-> Delete(m, key), result |-> Absent]
          ELSE [manager |-> m, result |-> entry.data]

Set(m, key, response, time) ==
  IF ~m.config.enabled \/ ~ShouldCache(response) THEN m
  ELSE EnforceMaxSize(SetEntry(m, [key |-> key, data |-> response,
                                   timestamp |-> time, ttl |-> m.config.ttl]))

\* new RegExp(pattern).test(key), for the patterns used: a key, and "^k"
\* which every key matches
Patterns == CacheKeys \cup {"^k"}

Matches(pattern, key) == pattern = "^k" \/ pattern = key

Invalidate(m, pattern) ==
  WithStore(m, SelectSeq(Store(m), LAMBDA e : ~Matches(pattern, e.key)))

CleanupExpiredEntries(m, time) ==
  WithStore(m, SelectSeq(Store(m), LAMBDA e : ~IsExpired(e, time)))

\* -------------------------------------------------------- Cache: initial
InitCache ==
  /\ \E cfg \in CacheConfigs : cm = [s \in Storages |-> NewCacheManager(cfg, s)]
  /\ cacheTimer = CleanupIntervalMs
  /\ cmObs = [key |-> "null", result |-> [s \in Storages |-> Absent],
              removed |-> {}]

\* -------------------------------------------------------- Cache: actions
SetCall(key, response) ==
  /\ cm' = [s \in Storages |-> Set(cm[s], key, response, now)]
  /\ UNCHANGED <<now, cacheTimer, cmObs, varsRM, varsCB, varsRetry, varsAuth, varsSvc, varsTM, varsRot, varsGets, varsMW>>

GetCall(key) ==
  /\ cm' = [s \in Storages |-> Get(cm[s], key, now).manager]
  /\ cmObs' = [key |-> key,
               result |-> [s \in Storages |-> Get(cm[s], key, now).result],
               removed |-> {s \in Storages : Get(cm[s], key, now).manager # cm[s]}]
  /\ UNCHANGED <<now, cacheTimer, varsRM, varsCB, varsRetry, varsAuth, varsSvc, varsTM, varsRot, varsGets, varsMW>>

DeleteCall(key) ==
  /\ cm' = [s \in Storages |-> Delete(cm[s], key)]
  /\ UNCHANGED <<now, cacheTimer, cmObs, varsRM, varsCB, varsRetry, varsAuth, varsSvc, varsTM, varsRot, varsGets, varsMW>>

InvalidateCall(pattern) ==
  /\ cm' = [s \in Storages |-> Invalidate(cm[s], pattern)]
  /\ UNCHANGED <<now, cacheTimer, cmObs, varsRM, varsCB, varsRetry, varsAuth, varsSvc, varsTM, varsRot, varsGets, varsMW>>

ClearCall ==
  /\ cm' = [s \in Storages |-> Clear(cm[s])]
  /\ UNCHANGED <<now, cacheTimer, cmObs, varsRM, varsCB, varsRetry, varsAuth, varsSvc, varsTM, varsRot, varsGets, varsMW>>

\* the setInterval(..., 60000) callback
CacheCleanupFires ==
  /\ now >= cacheTimer
  /\ cm' = [s \in Storages |-> CleanupExpiredEntries(cm[s], now)]
  /\ cacheTimer' = cacheTimer + CleanupIntervalMs
  /\ UNCHANGED <<now, cmObs, varsRM, varsCB, varsRetry, varsAuth, varsSvc, varsTM, varsRot, varsGets, varsMW>>

TickCache ==
  /\ now < MaxTime
  /\ now' = now + TickMs
  /\ UNCHANGED <<varsRM, varsCB, varsRetry, varsAuth, varsSvc, varsTM, varsCache, varsRot, varsGets, varsMW>>

NextCache ==
  \/ \E key \in CacheKeys, status \in Statuses :
        SetCall(key, [status |-> status, body |-> key])
  \/ \E key \in CacheKeys : GetCall(key)
  \/ \E key \in CacheKeys : DeleteCall(key)
  \/ \E pattern \in Patterns : InvalidateCall(pattern)
  \/ ClearCall
  \/ CacheCleanupFires
  \/ TickCache

\* ------------------------------------------------------- specifications
\* Each specification runs one component; the other stays as constructed.
\* ------------------------------------------------- TokenManager: rotation
\* usageCounts and errorCounts are read as (get(name) || 0): an absent
\* counter and a counter of 0 read the same, so both are kept as 0.
\* rotationStrategy is a private field that nothing assigns: it keeps its
\* initial value 'priority'.
NewCounters(enabled) ==
  [enabled |-> enabled, rotationStrategy |-> "priority",
   usageCounts |-> [n \in TokenNames |-> 0],
   errorCounts |-> [n \in TokenNames |-> 0],
   returned |-> NoToken, rotations |-> 0]

IncrementUsage(r, name) == [r EXCEPT !.usageCounts[name] = @ + 1]

\* the incrementUsage(...) of getValidToken, for the token it returns
CountUse(t, r, time) ==
  LET token == GetValidToken(t, time)
  IN IF token = NoToken THEN r ELSE IncrementUsage(r, token.name)

\* getCurrentTokenName: the first valid token in insertion order
GetCurrentTokenName(t, time) ==
  LET valid == SelectSeq(t.tokens, LAMBDA e : IsTokenValid(e, time))
  IN IF valid = <<>> THEN "null" ELSE valid[1].name

\* tokenNames.indexOf(name) + 1: 0 when the name is not a key
IndexOf(tokens, name) ==
  IF Has(tokens, name)
  THEN CHOOSE i \in 1..Len(tokens) : tokens[i].name = name
  ELSE 0

\* rotateRoundRobin: <<manager, returned token>>
RotateRoundRobin(t) ==
  LET nextTokenName == t.tokens[(IndexOf(t.tokens, t.primaryToken) % Len(t.tokens)) + 1].name
  IN <<[t EXCEPT !.primaryToken = nextTokenName], GetToken(t, nextTokenName)>>

\* rotateByPriority: the first entry of the (stable) sort by error count,
\* then usage count
RotateByPriority(t, r) ==
  LET n == Len(t.tokens)
      errors(i) == r.errorCounts[t.tokens[i].name]
      usage(i) == r.usageCounts[t.tokens[i].name]
      Before(i, j) ==
        \/ errors(i) < errors(j)
        \/ errors(i) = errors(j) /\ usage(i) < usage(j)
        \/ errors(i) = errors(j) /\ usage(i) = usage(j) /\ i < j
      first == CHOOSE i \in 1..n : \A j \in (1..n) \ {i} : Before(i, j)
  IN IF n > 0
     THEN <<[t EXCEPT !.primaryToken = t.tokens[first].name], t.tokens[first]>>
     ELSE <<t, NoToken>>

\* rotateByFailover: the first valid fallback token
RotateByFailover(t, time) ==
  LET token == FirstValidFallback(t, t.fallbackTokens, time)
  IN IF token = NoToken THEN <<t, NoToken>>
     ELSE <<[t EXCEPT !.primaryToken = token.name], token>>

\* rotateToken(): <<manager, returned token, counters>>
RotateToken(t, r, time) ==
  IF ~r.enabled THEN <<t, NoToken, r>>
  ELSE LET r1 == CountUse(t, r, time)
       IN IF GetValidToken(t, time) = NoToken THEN <<t, NoToken, r1>>
          ELSE IF GetCurrentTokenName(t, time) = "null" THEN <<t, NoToken, r1>>
          ELSE LET res == CASE r1.rotationStrategy = "round_robin" -> RotateRoundRobin(t)
                            [] r1.rotationStrategy = "priority" -> RotateByPriority(t, r1)
                            [] r1.rotationStrategy = "failover" -> RotateByFailover(t, time)
                            [] OTHER -> <<t, NoToken>>
               IN <<res[1], res[2], r1>>

InitRot == rot \in {NewCounters(enabled) : enabled \in BOOLEAN}

UsageBelowBound == \A n \in TokenNames : rot.usageCounts[n] < MaxUsage

\* addToken: the record, and both counters set to 0
AddTokenCounted(name, cfg) ==
  /\ tm' = AddTokenTo(tm, name, cfg)
  /\ rot' = [rot EXCEPT !.usageCounts[name] = 0, !.errorCounts[name] = 0]
  /\ UNCHANGED <<now, tmRefreshes, tmObs, varsRM, varsCB, varsRetry, varsAuth, varsSvc, varsCache, varsGets, varsMW>>

\* removeToken: the record and both counters deleted
RemoveTokenCounted(name) ==
  /\ tm' = RemoveTokenFrom(tm, name)
  /\ rot' = [rot EXCEPT !.usageCounts[name] = 0, !.errorCounts[name] = 0]
  /\ UNCHANGED <<now, tmRefreshes, tmObs, varsRM, varsCB, varsRetry, varsAuth, varsSvc, varsCache, varsGets, varsMW>>

\* a call of the public getValidToken()
GetValidTokenCall ==
  /\ UsageBelowBound
  /\ rot' = CountUse(tm, rot, now)
  /\ UNCHANGED <<now, varsTM, varsRM, varsCB, varsRetry, varsAuth, varsSvc, varsCache, varsGets, varsMW>>

\* rotateToken(): no await is reached before it returns
RotateTokenCall ==
  /\ UsageBelowBound
  /\ rot.rotations < MaxRotations
  /\ LET res == RotateToken(tm, rot, now)
     IN /\ tm' = res[1]
        /\ rot' = [res[3] EXCEPT !.returned = res[2], !.rotations = @ + 1]
  /\ UNCHANGED <<now, tmRefreshes, tmObs, varsRM, varsCB, varsRetry, varsAuth, varsSvc, varsCache, varsGets, varsMW>>

NextRot ==
  \/ \E name \in TokenNames, cfg \in TokenConfigs : AddTokenCounted(name, cfg)
  \/ \E name \in TokenNames : RemoveTokenCounted(name)
  \/ \E name \in TokenNames : SetPrimaryToken(name)
  \/ \E name \in TokenNames : AddFallbackToken(name)
  \/ GetValidTokenCall
  \/ RotateTokenCall
  \/ TickTM

\* --------------------------------------------- CacheManager: get in steps
\* get(key) runs up to "await this.getEntry(key)", where it has read the
\* entry, and goes on in a later turn of the event loop with isExpired,
\* delete and its return; other calls run in between.
GetRead(m, key) == IF ~m.config.enabled THEN NoEntry ELSE GetEntry(m, key)

\* get after the await: [manager, result]
GetResume(m, key, entry, time) ==
  IF ~m.config.enabled \/ entry = NoEntry THEN [manager |-> m, result |-> Absent]
  ELSE IF IsExpired(entry, time)
       THEN [manager |-> Delete(m, key), result |-> Absent]
       ELSE [manager |-> m, result |-> entry.data]

InitGets == gets = <<>>

GetStarts(key) ==
  /\ Len(gets) < MaxPendingGets
  /\ gets' = Append(gets, [key |-> key, started |-> now,
                           read |-> [s \in Storages |-> GetRead(cm[s], key)]])
  /\ UNCHANGED <<now, varsCache, varsRM, varsCB, varsRetry, varsAuth, varsSvc, varsTM, varsRot, varsMW>>

GetResumes(g) ==
  /\ g \in 1..Len(gets)
  /\ LET key == gets[g].key
         res == [s \in Storages |-> GetResume(cm[s], key, gets[g].read[s], now)]
     IN /\ cm' = [s \in Storages |-> res[s].manager]
        /\ cmObs' = [key |-> key,
                     result |-> [s \in Storages |-> res[s].result],
                     removed |-> {s \in Storages : res[s].manager # cm[s]}]
  /\ gets' = SubSeq(gets, 1, g - 1) \o SubSeq(gets, g + 1, Len(gets))
  /\ UNCHANGED <<now, cacheTimer, varsRM, varsCB, varsRetry, varsAuth, varsSvc, varsTM, varsRot, varsMW>>

NextCacheRace ==
  \/ \E key \in CacheKeys, status \in Statuses :
        SetCall(key, [status |-> status, body |-> key])
  \/ \E key \in CacheKeys : GetStarts(key)
  \/ \E g \in 1..MaxPendingGets : GetResumes(g)
  \/ TickCache

\* ----------------------------------------------------- MiddlewareManager
\* An error middleware is kept as what it does with the error it is given:
\* it resolves with a MiddlewareResponse ("returns"), rejects with the error
\* it was given ("rethrows"), rejects with another error that has no
\* response ("throwsOther") or that carries one ("throwsWithResponse"), or
\* never settles ("hangs").  The call's result is "response" (an
\* AxiosResponse), "undefined", or "original" (rejected with the error it
\* was called with).
Behaviours == {"returns", "rethrows", "throwsOther", "throwsWithResponse", "hangs"}

MiddlewareConfigs ==
  [enabled : BOOLEAN, maxMiddlewares : {MaxMiddlewaresUnderTest}, timeout : {TickMs}]

NoCall == [pc |-> "idle", at |-> 0, started |-> 0, result |-> "none"]

NewMiddlewareManager(cfg) ==
  [config |-> cfg, errorMiddlewares |-> <<>>, call |-> NoCall, calls |-> 0]

\* useError(middleware)
UseError(m, middleware) ==
  IF ~m.config.enabled THEN m
  ELSE IF Len(m.errorMiddlewares) >= m.config.maxMiddlewares THEN m
  ELSE [m EXCEPT !.errorMiddlewares = Append(@, middleware)]

\* executeErrorMiddlewares up to its first await
StartErrorMiddlewares(m, time) ==
  IF ~m.config.enabled \/ Len(m.errorMiddlewares) = 0
  THEN [m EXCEPT !.call = [pc |-> "rejected", at |-> 0, started |-> time,
                           result |-> "original"]]
  ELSE [m EXCEPT !.call = [pc |-> "running", at |-> 1, started |-> time,
                           result |-> "none"]]

\* the loop body after executeWithTimeout settled with outcome: the
\* middleware's own settlement, or "timeout" (Error('Middleware timeout'))
AfterMiddleware(m, outcome, time) ==
  CASE outcome = "returns" ->
         [m EXCEPT !.call.pc = "resolved", !.call.result = "response"]
    [] outcome = "rethrows" ->
         IF m.call.at < Len(m.errorMiddlewares)
         THEN [m EXCEPT !.call.at = @ + 1, !.call.started = time]
         ELSE [m EXCEPT !.call.pc = "rejected", !.call.result = "original"]
    [] outcome = "throwsWithResponse" ->
         [m EXCEPT !.call.pc = "resolved", !.call.result = "response"]
    [] OTHER ->
         [m EXCEPT !.call.pc = "resolved", !.call.result = "undefined"]

InitMW == mw \in {NewMiddlewareManager(cfg) : cfg \in MiddlewareConfigs}

UseErrorCall(middleware) ==
  /\ mw' = UseError(mw, middleware)
  /\ UNCHANGED <<now, varsRM, varsCB, varsRetry, varsAuth, varsSvc, varsTM, varsCache, varsRot, varsGets>>

ExecuteErrorMiddlewaresCall ==
  /\ mw.call.pc # "running"
  /\ mw.calls < MaxErrorCalls
  /\ mw' = [StartErrorMiddlewares(mw, now) EXCEPT !.calls = @ + 1]
  /\ UNCHANGED <<now, varsRM, varsCB, varsRetry, varsAuth, varsSvc, varsTM, varsCache, varsRot, varsGets>>

\* the middleware the loop is at settles
MiddlewareSettles ==
  /\ mw.call.pc = "running"
  /\ mw.errorMiddlewares[mw.call.at] # "hangs"
  /\ mw' = AfterMiddleware(mw, mw.errorMiddlewares[mw.call.at], now)
  /\ UNCHANGED <<now, varsRM, varsCB, varsRetry, varsAuth, varsSvc, varsTM, varsCache, varsRot, varsGets>>

\* the setTimeout of executeWithTimeout fires first
MiddlewareTimeoutFires ==
  /\ mw.call.pc = "running"
  /\ mw.errorMiddlewares[mw.call.at] = "hangs"
  /\ now >= mw.call.started + mw.config.timeout
  /\ mw' = AfterMiddleware(mw, "timeout", now)
  /\ UNCHANGED <<now, varsRM, varsCB, varsRetry, varsAuth, varsSvc, varsTM, varsCache, varsRot, varsGets>>

TickMW ==
  /\ now < MaxTime
  /\ now' = now + TickMs
  /\ UNCHANGED <<varsRM, varsCB, varsRetry, varsAuth, varsSvc, varsTM, varsCache, varsRot, varsGets, varsMW>>

NextMW ==
  \/ \E middleware \in Behaviours : UseErrorCall(middleware)
  \/ ExecuteErrorMiddlewaresCall
  \/ MiddlewareSettles
  \/ MiddlewareTimeoutFires
  \/ TickMW

IdleRot == rot = NewCounters(FALSE)

IdleMW == mw = NewMiddlewareManager([enabled |-> TRUE, maxMiddlewares |-> MaxMiddlewaresUnderTest, timeout |-> TickMs])

IdleLate == IdleRot /\ InitGets /\ IdleMW

IdleRM ==
  /\ InitRM
  /\ rm.config.enabled /\ rm.config.deduplication

IdleCB ==
  /\ InitCB
  /\ cb.config.enabled /\ cb.config.errorFilter = "none"

IdleRetry ==
  /\ InitRetry
  /\ rh.config = [enabled |-> TRUE, maxRetries |-> MaxRetriesUnderTest,
                  retryDelay |-> DefaultRetryDelay,
                  retryCondition |-> "none", retryDelayFunction |-> "none"]

IdleAuth ==
  /\ InitAuth
  /\ auth.config = [enabled |-> TRUE, refreshToken |-> "enabled",
                    onTokenExpired |-> FALSE]

IdleService ==
  /\ InitService
  /\ svc = [transformError |-> FALSE, errorInterceptor |-> "none"]

IdleTM == InitTM

IdleCache ==
  /\ InitCache
  /\ cm["memory"].config.enabled

\* the service runs with the default delays: they do not bear on its outcome
ServiceRetryConfig ==
  /\ rh.config.retryDelay = DefaultRetryDelay
  /\ rh.config.retryDelayFunction = "none"

StartRM == now = 0 /\ InitRM /\ IdleCB /\ IdleRetry /\ IdleAuth /\ IdleService /\ IdleTM /\ IdleCache /\ IdleLate

StartCB == now = 0 /\ InitCB /\ IdleRM /\ IdleRetry /\ IdleAuth /\ IdleService /\ IdleTM /\ IdleCache /\ IdleLate

StartRetry == now = 0 /\ InitRetry /\ IdleRM /\ IdleCB /\ IdleAuth /\ IdleService /\ IdleTM /\ IdleCache /\ IdleLate

StartAuth == now = 0 /\ InitAuth /\ IdleRM /\ IdleCB /\ IdleRetry /\ IdleService /\ IdleTM /\ IdleCache /\ IdleLate

StartService ==
  /\ now = 0 /\ InitService /\ InitRetry /\ ServiceRetryConfig /\ InitAuth
  /\ IdleRM /\ IdleCB /\ IdleTM /\ IdleCache /\ IdleLate

StartTM ==
  /\ now = 0 /\ InitTM
  /\ IdleRM /\ IdleCB /\ IdleRetry /\ IdleAuth /\ IdleService /\ IdleCache /\ IdleLate

StartCache ==
  /\ now = 0 /\ InitCache
  /\ IdleRM /\ IdleCB /\ IdleRetry /\ IdleAuth /\ IdleService /\ IdleTM /\ IdleLate

SpecRM == StartRM /\ [][NextRM]_vars

SpecCB == StartCB /\ [][NextCB]_vars

SpecRetry == StartRetry /\ [][NextRetry]_vars

SpecAuth == StartAuth /\ [][NextAuth]_vars

SpecService == StartService /\ [][NextService]_vars

SpecTM == StartTM /\ [][NextTM]_vars

SpecCache == StartCache /\ [][NextCache]_vars

StartRMCfg ==
  /\ now = 0 /\ InitRM /\ rm.config.enabled
  /\ IdleCB /\ IdleRetry /\ IdleAuth /\ IdleService /\ IdleTM /\ IdleCache /\ IdleLate

SpecRMCfg == StartRMCfg /\ [][NextRMCfg]_vars

StartRot ==
  /\ now = 0 /\ InitTM /\ InitRot
  /\ IdleRM /\ IdleCB /\ IdleRetry /\ IdleAuth /\ IdleService /\ IdleCache
  /\ InitGets /\ IdleMW

SpecRot == StartRot /\ [][NextRot]_vars

StartCacheRace ==
  /\ now = 0 /\ InitCache /\ InitGets
  /\ IdleRM /\ IdleCB /\ IdleRetry /\ IdleAuth /\ IdleService /\ IdleTM
  /\ IdleRot /\ IdleMW

SpecCacheRace == StartCacheRace /\ [][NextCacheRace]_vars

StartMW ==
  /\ now = 0 /\ InitMW
  /\ IdleRM /\ IdleCB /\ IdleRetry /\ IdleAuth /\ IdleService /\ IdleTM /\ IdleCache
  /\ IdleRot /\ InitGets

SpecMW == StartMW /\ [][NextMW]_vars

\* ================================================= RequestManager claims
Admitted == DOMAIN rm.promise
Settled == {id \in Admitted : rm.promise[id] # "pending"}
HistoryStatusOf(id) ==
  {rm.requestHistory[i].status : i \in {j \in 1..Len(rm.requestHistory) :
                                           rm.requestHistory[j].id = id}}
StatusFor(outcome) ==
  CASE outcome = "pending" -> "pending"
    [] outcome = "resolved" -> "completed"
    [] outcome = "error" -> "error"
    [] outcome = "cancelled" -> "cancelled"

\* C1: with deduplication enabled, a call issued while an earlier call with
\* the same key is still unsettled joins that call: requestFn is not invoked
\* again and both callers observe the same outcome.
C1_DedupSharesOneCall ==
  \A c2 \in 1..Len(callers) :
     LET c1 == callers[c2].twin
     IN (rm.config.enabled /\ rm.config.deduplication /\ c1 # 0) =>
          /\ callers[c2].kind = "dedup"
          /\ callers[c2].req = callers[c1].req
          /\ c2 \notin DOMAIN transport
          /\ Cardinality({id \in DOMAIN transport :
                             id \in {callers[c1].req, callers[c2].req}}) = 1
          /\ Outcome(c2) = Outcome(c1)

C1_Witness ==
  \E c2 \in 1..Len(callers) :
     /\ callers[c2].twin # 0
     /\ callers[c2].kind = "dedup"
     /\ Outcome(c2) \in {"resolved", "error", "cancelled"}

\* C2: every admitted request settles exactly once.  It is in flight exactly
\* while its promise is pending; the first of success / error / cancellation
\* fixes the caller's outcome, the history status and one statistics count,
\* and no later event for the same id changes any of them; no deduplication
\* entry refers to a settled request.  (A history entry may be gone: the
\* cleanup drops entries older than 24 hours.)
C2_SettlesExactlyOnce ==
  /\ DOMAIN rm.pendingRequests = Admitted \ Settled
  /\ \A k \in DOMAIN rm.deduplicationMap : rm.deduplicationMap[k] \notin Settled
  /\ rm.stats.activeRequests = Cardinality(Admitted \ Settled)
  /\ rm.stats.completedRequests =
        Cardinality({id \in Admitted : rm.promise[id] \in {"resolved", "error"}})
  /\ rm.stats.cancelledRequests =
        Cardinality({id \in Admitted : rm.promise[id] = "cancelled"})
  /\ \A id \in Admitted : HistoryStatusOf(id) \subseteq {StatusFor(rm.promise[id])}

\* a request was cancelled and its requestFn call settled afterwards
C2_Witness ==
  \E id \in Admitted :
     /\ rm.promise[id] = "cancelled"
     /\ transport[id] # "running"
     /\ \E other \in Admitted : rm.promise[other] \in {"resolved", "error"}

\* C3: the number of in-flight requests never exceeds maxConcurrentRequests,
\* and a non-duplicate call issued while the in-flight count equals the
\* ceiling is rejected with the capacity error: it is not registered,
\* requestFn is not called for it and it is not left pending.
C3_ConcurrencyCeiling ==
  /\ Cardinality(DOMAIN rm.pendingRequests) <= rm.config.maxConcurrentRequests
  /\ \A c \in 1..Len(callers) :
        callers[c].full =>
          /\ callers[c].kind = "capacity"
          /\ Outcome(c) = "capacity"
          /\ c \notin DOMAIN transport
          /\ c \notin Admitted

C3_Witness ==
  \E c \in 1..Len(callers) : callers[c].full /\ callers[c].kind = "capacity"

\* C4: after cancelRequest took effect on an in-flight request, its callers
\* observe the cancelled rejection, it is counted in cancelledRequests, and a
\* later success or failure of requestFn neither reaches the callers nor
\* increments completedRequests.
C4_CancelledStaysCancelled ==
  /\ \A id \in obs.cancelled :
        /\ rm.promise[id] = "cancelled"
        /\ \A c \in 1..Len(callers) : callers[c].req = id => Outcome(c) = "cancelled"
        /\ HistoryStatusOf(id) \subseteq {"cancelled"}
  /\ rm.stats.cancelledRequests = Cardinality(obs.cancelled)
  /\ rm.stats.completedRequests =
        Cardinality({id \in Admitted \ obs.cancelled : transport[id] # "running"})

C4_Witness ==
  \E id \in obs.cancelled : transport[id] = "resolved"

\* C5 (as claimed): a request whose timeout timer fired while it was in
\* flight settles only as cancelled: never with history status 'error' or
\* 'completed', never counted in completedRequests.
C5_TimeoutSettlesAsCancelled ==
  \A id \in obs.timedOut :
     /\ rm.promise[id] \in {"pending", "cancelled"}
     /\ HistoryStatusOf(id) \subseteq {"pending", "cancelled"}

\* C6 (as claimed): once the timeout timer of a request has fired, the
\* request is no longer in flight.
C6_NoRequestInFlightPastTimeout ==
  \A id \in DOMAIN timer :
     timer[id].state = "fired" => id \notin DOMAIN rm.pendingRequests


\* ================================================= CircuitBreaker claims
ExecuteStep == cbObs'.calls = cbObs.calls + 1
RejectedStep == cbObs'.rejected = cbObs.rejected + 1 /\ running' = running
OpenAndWaiting(b, t) == b.state = "open" /\ t < b.nextAttemptTime

\* C7 (as claimed): on an enabled breaker, failureThreshold consecutive
\* counted failures recorded while Closed (no success in between) leave the
\* breaker Open, and while it is Open with now < nextAttemptTime every
\* admission check of execute is refused.
C7_StreakBelowThresholdWhileClosed ==
  (cb.config.enabled /\ cb.state = "closed") =>
     cbObs.streak < cb.config.failureThreshold

C7_RefusedWhileOpen ==
  (cb.config.enabled /\ OpenAndWaiting(cb, now) /\ ExecuteStep) =>
     (RejectedStep /\ cb'.state = "open")

C7_ThresholdFailuresOpen ==
  [](C7_StreakBelowThresholdWhileClosed) /\ [][C7_RefusedWhileOpen]_vars

\* C8 (as claimed): while the breaker is Open and now < nextAttemptTime,
\* every execute call is rejected and its operation is not invoked.
C8_OpenRejectsEveryExecute ==
  [][(OpenAndWaiting(cb, now) /\ ExecuteStep) =>
        (RejectedStep /\ cbObs'.invoked = cbObs.invoked)]_vars

\* C8 (amended): the same for an enabled breaker; the rejected call changes
\* nothing but totalRequests.
C8_EnabledOpenRejectsEveryExecute ==
  [][(cb.config.enabled /\ OpenAndWaiting(cb, now) /\ ExecuteStep) =>
        /\ RejectedStep
        /\ cbObs'.invoked = cbObs.invoked
        /\ cb' = [cb EXCEPT !.totalRequests = @ + 1]]_vars

C8_Witness ==
  /\ cb.config.enabled
  /\ OpenAndWaiting(cb, now)
  /\ cbObs.last = [op |-> "reject", from |-> "open"]

AdmittedAsProbe ==
  /\ running' = [running EXCEPT !.halfOpen = @ + 1]
  /\ cbObs'.invoked = cbObs.invoked + 1

TimeoutElapsed(b, t) == b.state = "open" /\ b.nextAttemptTime # 0 /\ t >= b.nextAttemptTime

\* C9 (as claimed): once the open timeout has elapsed the next admission
\* check makes the breaker HalfOpen with successCount 0 and admits the
\* request; while HalfOpen with the configured number of probes
\* (successThreshold) in flight, a further execute call is rejected.
C9_HalfOpenLimitsProbes ==
  [][(cb.config.enabled /\ ExecuteStep) =>
        /\ TimeoutElapsed(cb, now) =>
              (cb'.state = "half-open" /\ cb'.successCount = 0 /\ AdmittedAsProbe)
        /\ (cb.state = "half-open"
              /\ running.halfOpen >= cb.config.successThreshold) => RejectedStep]_vars

\* C9 (amended): once the open timeout has elapsed the next admission check
\* of an enabled breaker makes it HalfOpen with successCount 0 and admits
\* the request; while HalfOpen every execute call is admitted, whatever the
\* number of probes in flight, and leaves state and successCount alone.
C9_HalfOpenAdmitsEveryProbe ==
  [][(cb.config.enabled /\ ExecuteStep) =>
        /\ TimeoutElapsed(cb, now) =>
              (cb'.state = "half-open" /\ cb'.successCount = 0 /\ AdmittedAsProbe)
        /\ cb.state = "half-open" =>
              /\ AdmittedAsProbe
              /\ cb'.state = "half-open"
              /\ cb'.successCount = cb.successCount]_vars

\* the breaker went half-open by the elapsed timeout (nextAttemptTime is
\* still set) and has admitted more probes than successThreshold
C9_Witness ==
  /\ cb.state = "half-open"
  /\ cb.nextAttemptTime # 0 /\ now >= cb.nextAttemptTime
  /\ cbObs.last = [op |-> "admit", from |-> "half-open"]
  /\ running.halfOpen > cb.config.successThreshold

\* C10: a success recorded while HalfOpen increments successCount; when the
\* count reaches successThreshold the breaker is Closed with failureCount 0,
\* successCount 0 and nextAttemptTime cleared, otherwise it stays HalfOpen;
\* so a HalfOpen breaker always has successCount < successThreshold.
C10_SuccessRecorded == cb'.totalSuccesses = cb.totalSuccesses + 1

C10_HalfOpenSuccessStep ==
  (cb.state = "half-open" /\ C10_SuccessRecorded) =>
     IF cb.successCount + 1 >= cb.config.successThreshold
     THEN /\ cb'.state = "closed"
          /\ cb'.failureCount = 0
          /\ cb'.successCount = 0
          /\ cb'.nextAttemptTime = 0
     ELSE /\ cb'.state = "half-open"
          /\ cb'.successCount = cb.successCount + 1

C10_HalfOpenSuccessesClose ==
  /\ [](cb.state = "half-open" => cb.successCount < cb.config.successThreshold)
  /\ [][C10_HalfOpenSuccessStep]_vars

C10_Witness ==
  /\ cbObs.last = [op |-> "success", from |-> "half-open"]
  /\ cb.state = "closed"
  /\ cb.totalSuccesses >= cb.config.successThreshold
  /\ cb.totalFailures >= cb.config.failureThreshold

CountedFailureStep == cb'.totalFailures = cb.totalFailures + 1

\* the instants of the clock from t up to, not including, the end of the
\* open timeout that starts at t
WithinOpenTimeout(b, t) ==
  {t + k * TickMs : k \in 0..((b.config.timeout - 1) \div TickMs)}

\* C11: a counted failure recorded while the breaker is HalfOpen leaves it
\* Open, whatever successCount is, with nextAttemptTime = time of the
\* failure + open timeout; canExecute() on the breaker so left is false at
\* every instant before nextAttemptTime and true at nextAttemptTime.
C11_HalfOpenFailureReopens ==
  [][(cb.state = "half-open" /\ CountedFailureStep) =>
        /\ cb'.state = "open"
        /\ cb'.nextAttemptTime = now + cb.config.timeout
        /\ cb'.successCount = cb.successCount
        /\ \A t \in WithinOpenTimeout(cb, now) : ~CanExecute(cb', t)[1]
        /\ CanExecute(cb', cb'.nextAttemptTime)[1]]_vars

\* a probe failed after another probe had succeeded, at a time after 0
C11_Witness ==
  /\ cbObs.last = [op |-> "failure", from |-> "half-open"]
  /\ cb.state = "open"
  /\ cb.successCount > 0
  /\ now > 0
  /\ cb.nextAttemptTime = now + cb.config.timeout

\* C12 (as claimed): with no errorFilter configured, an operation that
\* fails with a 4xx response does not increment failureCount and does not
\* change the state of the breaker.
C12_ClientErrorsNotCounted ==
  [][\A slot \in {"closed", "halfOpen"} :
        (cb.config.errorFilter = "none" /\ OperationFails(slot, "status4xx")) =>
           /\ cb'.failureCount = cb.failureCount
           /\ cb'.state = cb.state]_vars

\* C13 (as claimed): when a Closed breaker holds k < failureThreshold counted
\* failures, the latest of them older than resetTimeout, one more counted
\* failure does not open it (with failureThreshold > 1 a single new failure
\* is fewer than failureThreshold new failures).
C13_StaleFailuresExpire ==
  [][(/\ cb.state = "closed"
      /\ cb.failureCount \in 1..(cb.config.failureThreshold - 1)
      /\ cb.lastFailureTime # -1
      /\ now - cb.lastFailureTime > cb.config.resetTimeout
      /\ ~cb.resetTimer.armed
      /\ cb.config.failureThreshold > 1
      /\ CountedFailureStep) => cb'.state = "closed"]_vars

\* =================================================== RetryHandler claims
RetryCalls == 1..MaxRetryCalls

IsTimeoutOrNetworkError(err) ==
  err.code \in {"ECONNABORTED", "ETIMEDOUT"} \/ err.status = 0

\* a started delay ends in the next requestFn call of the same
\* executeWithRetry call, with the next attempt index
DelayLeadsToNextAttempt ==
  \A c \in RetryCalls :
     (calls[c].pc = "delay" /\ calls'[c] # calls[c]) =>
        /\ calls'[c].pc = "requestFn"
        /\ calls'[c].attempt = calls[c].attempt + 1
        /\ calls'[c].invocations = calls[c].invocations + 1

AttemptCounterIsOwn ==
  \A c \in RetryCalls :
     calls'[c].attempt # calls[c].attempt =>
        /\ calls[c].pc = "delay"
        /\ calls'[c].attempt = calls[c].attempt + 1
        /\ \A d \in RetryCalls \ {c} : calls'[d] = calls[d]

RejectsWithLastError ==
  \A c \in RetryCalls, err \in Errors :
     (AttemptRejects(c, err) /\ calls'[c].pc = "rejected") =>
        calls'[c].result = [kind |-> "error", error |-> err]

\* C15 (as claimed): one executeWithRetry call invokes requestFn at most
\* maxRetries + 1 times; a call whose attempts all failed with a retryable
\* error has invoked it exactly maxRetries + 1 times and rejects with the
\* error of the last attempt; the attempt counter of a call changes only by
\* its own retries, one at a time, and equals its own number of failed
\* attempts.
C15_AttemptsBounded ==
  /\ [](\A c \in RetryCalls :
          /\ calls[c].invocations <= rh.config.maxRetries + 1
          /\ calls[c].pc # "idle" => calls[c].invocations = calls[c].attempt + 1
          /\ (calls[c].pc = "rejected"
                /\ ShouldRetry(rh.config, calls[c].result.error)) =>
                calls[c].invocations = rh.config.maxRetries + 1)
  /\ [][AttemptCounterIsOwn /\ RejectsWithLastError]_vars

\* C15 (amended): the same, the exact count of maxRetries + 1 invocations
\* being that of an enabled handler; a disabled handler invokes requestFn
\* once.
C15_EnabledAttemptsBounded ==
  /\ [](\A c \in RetryCalls :
          /\ calls[c].invocations <= rh.config.maxRetries + 1
          /\ calls[c].pc # "idle" => calls[c].invocations = calls[c].attempt + 1
          /\ (calls[c].pc = "rejected"
                /\ ShouldRetry(rh.config, calls[c].result.error)) =>
                calls[c].invocations =
                   IF rh.config.enabled THEN rh.config.maxRetries + 1 ELSE 1)
  /\ [][AttemptCounterIsOwn /\ RejectsWithLastError]_vars

\* a call exhausted its retries on retryable errors, the last one differing
\* from the one before, while another call is in the middle of its own
C15_Witness ==
  /\ rh.config.enabled /\ rh.config.maxRetries = MaxRetriesUnderTest
  /\ \E c, d \in RetryCalls :
        /\ calls[c].pc = "rejected"
        /\ calls[c].invocations = rh.config.maxRetries + 1
        /\ ShouldRetry(rh.config, calls[c].result.error)
        /\ calls[d].pc = "delay" /\ calls[d].attempt = 0
        /\ calls[d].lastError # calls[c].result.error

\* C16: a call whose attempt k+1 succeeds after k failed attempts resolves
\* with that success; k <= maxRetries and the k failures were retryable;
\* the caller's promise is pending as long as attempts or delays go on, so
\* no intermediate error reaches it; exactly k delays were started, and
\* nothing happens in the call after the success.
C16_SuccessAfterRetries ==
  /\ [](\A c \in RetryCalls :
          /\ calls[c].pc \in {"requestFn", "passthrough", "delay"} =>
                calls[c].result.kind = "pending"
          /\ calls[c].pc = "resolved" =>
                /\ calls[c].result = [kind |-> "value", error |-> NoError]
                /\ calls[c].delays = calls[c].invocations - 1
                /\ calls[c].delays <= rh.config.maxRetries
                /\ calls[c].delays > 0 =>
                      ShouldRetry(rh.config, calls[c].lastError))
  /\ [][\A c \in RetryCalls :
          /\ AttemptResolves(c) => calls'[c].pc = "resolved"
          /\ calls[c].pc = "resolved" => calls'[c] = calls[c]]_vars

\* a call resolved on its last allowed attempt, after maxRetries failures
C16_Witness ==
  /\ rh.config.maxRetries = MaxRetriesUnderTest
  /\ \E c \in RetryCalls :
        /\ calls[c].pc = "resolved"
        /\ calls[c].invocations = rh.config.maxRetries + 1
        /\ calls[c].delays = rh.config.maxRetries
        /\ calls[c].lastError # NoError

\* C17: with no retryDelayFunction, the delay computed after attempt n lies
\* in [min(retryDelay * 2^n, 30000), min(retryDelay * 2^n * 1.1, 30000)].
C17_DelayWithinBounds ==
  \A c \in RetryCalls :
     (calls[c].pc = "delay" /\ rh.config.retryDelayFunction = "none") =>
        LET exponential == rh.config.retryDelay * 2^(calls[c].attempt)
        IN /\ Smaller(exponential, 30000) * DelayScale <= calls[c].delay
           /\ calls[c].delay <=
                Smaller(exponential * 11 * (DelayScale \div 10), 30000 * DelayScale)

\* a delay that the jitter alone pushed onto the cap, and one under the cap
\* with a jitter that is not zero
C17_Witness ==
  /\ rh.config.retryDelayFunction = "none"
  /\ \E c, d \in RetryCalls :
        /\ calls[c].pc = "delay"
        /\ rh.config.retryDelay * 2^(calls[c].attempt) < 30000
        /\ calls[c].delay = 30000 * DelayScale
        /\ calls[d].pc = "delay"
        /\ calls[d].delay < 30000 * DelayScale
        /\ calls[d].delay > rh.config.retryDelay * 2^(calls[d].attempt) * DelayScale

\* ==================================================== AuthHandler claims
AuthHandlers == 1..Len(handlers)
InFlightRefreshes == {r \in 1..Len(refreshes) : refreshes[r].state \in Unsettled}
UnauthorizedStep ==
  /\ Len(handlers') = Len(handlers) + 1
  /\ handlers'[Len(handlers')].status = 401

\* C18: at no time are two refresh calls in flight; every refresh calls the
\* endpoint at most once, and exactly once when it got as far as the call;
\* a 401 handled while a refresh is pending starts no refresh and makes no
\* endpoint call, so the N triggers of one pending refresh are served by
\* its single endpoint call.
C18_SingleFlightRefresh ==
  /\ [](/\ Cardinality(InFlightRefreshes) <= 1
        /\ \A r \in 1..Len(refreshes) :
              /\ refreshes[r].fetches <= 1
              /\ refreshes[r].state \in {"fetch", "token", "null"} =>
                    refreshes[r].fetches = 1
        /\ \A h \in AuthHandlers :
              handlers[h].during # 0 => ~handlers[h].owner)
  /\ [][(UnauthorizedStep /\ PendingRefresh # 0) => refreshes' = refreshes]_vars

\* two 401s were handled while the refresh whose endpoint call is in flight
\* was pending, and that refresh is the only one ever started
C18_Witness ==
  /\ Len(refreshes) = 1
  /\ refreshes[1].state = "fetch" /\ refreshes[1].fetches = 1
  /\ Cardinality({h \in AuthHandlers :
                     handlers[h].status = 401 /\ handlers[h].during = 1}) >= 2

\* C19 (as claimed): a 401 handled while a refresh is pending waits for that
\* refresh, and when the refresh succeeds the handling of that 401 has
\* invoked neither onTokenExpired nor removeToken.
C19_ConcurrentUnauthorizedSharesRefresh ==
  \A h \in AuthHandlers :
     (handlers[h].status = 401 /\ handlers[h].during # 0) =>
        /\ handlers[h].pc = "awaitRefresh" =>
              handlers[h].refresh = handlers[h].during
        /\ refreshes[handlers[h].during].state = "token" =>
              handlers[h].expired = "none"

\* C20: when a refreshToken() call ends, whatever the refresh returned
\* (token, null or an exception), isRefreshing is false and refreshPromise
\* is null; the guard is held exactly while a refreshToken() call is
\* awaiting; and a 401 handled with the guard released starts a new refresh.
C20_GuardReleased ==
  /\ [](/\ auth.isRefreshing <=> auth.refreshPromise # 0
        /\ auth.isRefreshing <=>
              \E h \in AuthHandlers : handlers[h].pc = "awaitRefresh")
  /\ [][/\ \A h \in 1..MaxHandlers :
              RefreshTokenReturns(h) =>
                 (~auth'.isRefreshing /\ auth'.refreshPromise = 0)
        /\ (/\ UnauthorizedStep
            /\ auth.config.enabled /\ auth.config.refreshToken = "enabled"
            /\ \A h \in AuthHandlers : handlers[h].pc = "done") =>
               /\ Len(refreshes') = Len(refreshes) + 1
               /\ handlers'[Len(handlers')].pc = "awaitRefresh"]_vars

\* three refreshes ran one after the other, ending on the three exit paths
C20_Witness ==
  /\ ~auth.isRefreshing /\ auth.refreshPromise = 0
  /\ Len(refreshes) = 3
  /\ {refreshes[r].state : r \in 1..Len(refreshes)} = {"token", "null", "threw"}
  /\ \A h \in AuthHandlers : handlers[h].pc = "done"

\* ======================================================== Service claims
ServiceCalls == 1..MaxServiceCalls

CallSettled(c) == calls[c].pc \in {"resolved", "rejected"}

\* the refreshes started on behalf of service call c
RefreshesOf(c) ==
  {handlers[h].refresh : h \in {g \in wire[c].handlers : handlers[g].owner}}

\* C21: a service request whose 401 led to a successful token refresh is
\* sent again after the refresh (and so cannot end with only the one attempt
\* that got the 401)
C21_RefreshedRequestIsReplayed ==
  \A c \in ServiceCalls :
    (CallSettled(c) /\ \E h \in wire[c].handlers : handlers[h].setToken)
      => calls[c].invocations >= 2

\* C22: one service request, with all its retry attempts, starts at most one
\* token refresh
C22_OneRefreshPerRequest ==
  \A c \in ServiceCalls : Cardinality(RefreshesOf(c)) <= 1

\* C23: a service request whose 401 started a refresh that failed, and whose
\* last attempt failed, ends in a rejection
C23_FailedRefreshSurfaces401 ==
  \A c \in ServiceCalls :
    (/\ CallSettled(c)
     /\ wire[c].last = "error"
     /\ \E h \in wire[c].handlers :
          /\ handlers[h].owner
          /\ refreshes[handlers[h].refresh].state = "threw")
      => calls[c].pc = "rejected"

\* C30: a service request whose last attempt failed is never delivered to
\* its caller as a success, and it ends on a failed attempt with a retryable
\* error only when maxRetries retries have been made
C30_FailuresAreRetriedAndSurface ==
  \A c \in ServiceCalls :
    /\ calls[c].pc = "resolved" => wire[c].last = "ok"
    /\ (/\ CallSettled(c)
        /\ wire[c].last = "error"
        /\ rh.config.enabled
        /\ ShouldRetry(rh.config, wire[c].error))
         => calls[c].attempt = rh.config.maxRetries

\* =================================================== TokenManager claims
InFlightFor(name) == {r \in 1..Len(tmRefreshes) : tmRefreshes[r] = name}

\* C24: for each named token at most one performTokenRefresh is in flight
C24_OneRefreshInFlightPerToken ==
  \A name \in TokenNames : Cardinality(InFlightFor(name)) <= 1

\* a record whose expiresAt is set and reached
Expired(token, time) == token.expiresAt # NoExpiry /\ time >= token.expiresAt

\* the registered, unexpired fallbacks, by their place in fallbackTokens
LiveFallbacks ==
  {i \in 1..Len(tm.fallbackTokens) :
     /\ Has(tm.tokens, tm.fallbackTokens[i])
     /\ ~Expired(GetToken(tm, tm.fallbackTokens[i]), now)}

C26_TtlBoundaryExact ==
  [][\A key \in CacheKeys :
       GetCall(key) =>
         \A s \in Storages :
           LET entry == GetEntry(cm[s], key)
           IN entry # NoEntry =>
                IF now < entry.timestamp + entry.ttl
                THEN cmObs'.result[s] = entry.data
                ELSE cmObs'.result[s] = Absent]_vars

\* C26, amended: a stored entry is returned by every read up to and at
\* timestamp + ttl, and is absent for every read after timestamp + ttl
C26_TtlBoundaryInclusive ==
  [][\A key \in CacheKeys :
       GetCall(key) =>
         \A s \in Storages :
           LET entry == GetEntry(cm[s], key)
           IN entry # NoEntry =>
                IF now <= entry.timestamp + entry.ttl
                THEN cmObs'.result[s] = entry.data
                ELSE cmObs'.result[s] = Absent]_vars

\* a read at exactly timestamp + ttl returned the stored response
C26_Witness ==
  /\ cmObs.key \in CacheKeys
  /\ \A s \in Storages :
       LET entry == GetEntry(cm[s], cmObs.key)
       IN /\ entry # NoEntry
          /\ now = entry.timestamp + entry.ttl
          /\ entry.ttl > 0
          /\ cmObs.result[s] = entry.data

\* C27: a read of an entry older than its ttl returns absent and removes the
\* entry, whether or not the cleanup has run; a read of an entry that is not
\* older than its ttl returns it and leaves the manager as it was
C27_ExpiredNeverServed ==
  [][\A key \in CacheKeys :
       GetCall(key) =>
         \A s \in Storages :
           LET entry == GetEntry(cm[s], key)
           IN entry # NoEntry =>
                IF now - entry.timestamp > entry.ttl
                THEN /\ cmObs'.result[s] = Absent
                     /\ key \notin KeysOf(Store(cm'[s]))
                ELSE /\ cmObs'.result[s] = entry.data
                     /\ cm'[s] = cm[s]]_vars

\* an expired entry was read, and removed by the read, before the first
\* cleanup
C27_Witness ==
  /\ cacheTimer = CleanupIntervalMs
  /\ cmObs.removed = Storages
  /\ \A s \in Storages :
       /\ cmObs.result[s] = Absent
       /\ cmObs.key \notin KeysOf(Store(cm[s]))

\* the entries a set call had at hand (those stored before it, the entry of
\* its key replaced by the new one) that are gone after it
RemovedBySet(s, key) ==
  LET before == Store(cm[s])
      kept == KeysOf(Store(cm'[s]))
  IN {[key |-> before[i].key, timestamp |-> before[i].timestamp] :
        i \in {j \in 1..Len(before) : before[j].key # key /\ before[j].key \notin kept}}
     \cup (IF key \in kept THEN {} ELSE {[key |-> key, timestamp |-> now]})

\* C28: after a set that stores its response each manager holds at most
\* maxSize entries, and no entry removed by the set is younger than an entry
\* it kept
C28_MaxSizeAfterSet ==
  [][\A key \in CacheKeys :
       SetCall(key, [status |-> 200, body |-> key]) =>
         \A s \in Storages :
           cm[s].config.enabled =>
             /\ Len(Store(cm'[s])) <= cm[s].config.maxSize
             /\ \A r \in RemovedBySet(s, key) :
                  \A i \in 1..Len(Store(cm'[s])) :
                    r.timestamp <= Store(cm'[s])[i].timestamp]_vars

\* C29: the managers of all backends hold the same keys and gave the same
\* answer to the latest get
C29_BackendsAgree ==
  \A s \in Storages :
    /\ KeysOf(Store(cm[s])) = KeysOf(Store(cm["memory"]))
    /\ cmObs.result[s] = cmObs.result["memory"]

\* ====================================== RequestManager claims (statistics)
ErrorsIn(h) == Cardinality({i \in 1..Len(h) : h[i].status = "error"})

\* C32: when a request of the manager settles with an error, the errorRate
\* reported afterwards is (entries of the history with status error, this one
\* included) / (completedRequests + cancelledRequests)
C32_ErrorRateCountsCurrentError ==
  [][\A id \in 1..MaxCalls :
       (RequestFnSettles(id, "rejected") /\ id \in DOMAIN rm.pendingRequests) =>
          rm'.stats.errorRate.num
              * (rm'.stats.completedRequests + rm'.stats.cancelledRequests)
            = ErrorsIn(rm'.requestHistory) * rm'.stats.errorRate.den]_vars

\* the executeRequest call just made was deduplicated or refused for capacity
DedupOrCapacityStep ==
  /\ Len(callers') = Len(callers) + 1
  /\ callers'[Len(callers')].kind \in {"dedup", "capacity"}

CountersConsistent ==
  /\ rm.stats.activeRequests = Cardinality(DOMAIN rm.pendingRequests)
  /\ rm.stats.totalRequests
       = rm.stats.activeRequests + rm.stats.completedRequests
         + rm.stats.cancelledRequests
  /\ rm.stats.totalRequests >= 0 /\ rm.stats.activeRequests >= 0
  /\ rm.stats.completedRequests >= 0 /\ rm.stats.cancelledRequests >= 0
  /\ rm.stats.deduplicatedRequests >= 0

\* C33: activeRequests is the number of in-flight requests, totalRequests is
\* the sum of the active, completed and cancelled counts, no counter is
\* negative, and a deduplicated or capacity-rejected call changes none of the
\* three terms
C33_CountersStayConsistent ==
  /\ []CountersConsistent
  /\ [][DedupOrCapacityStep =>
          /\ rm'.stats.totalRequests = rm.stats.totalRequests
          /\ rm'.stats.activeRequests = rm.stats.activeRequests
          /\ rm'.stats.completedRequests = rm.stats.completedRequests
          /\ rm'.stats.cancelledRequests = rm.stats.cancelledRequests]_vars

\* a call was refused for capacity, and of the requests in flight then one
\* has completed and one has been cancelled
C33_Witness ==
  /\ \E c \in 1..Len(callers) : callers[c].kind = "capacity"
  /\ rm.stats.cancelledRequests > 0
  /\ rm.stats.completedRequests > 0

\* ======================================== RequestManager claims (updateConfig)
DedupEntriesInFlight ==
  \A key \in DOMAIN rm.deduplicationMap :
    rm.deduplicationMap[key] \in DOMAIN rm.pendingRequests

\* C34: every entry of the deduplication map names a request that is in
\* flight, and no step removes or replaces the entry of a request that stays
\* in flight, with updateConfig switching deduplication on and off
C34_DedupMapConsistent ==
  /\ []DedupEntriesInFlight
  /\ [][\A key \in DOMAIN rm.deduplicationMap :
          rm.deduplicationMap[key] \in DOMAIN rm'.pendingRequests =>
            /\ key \in DOMAIN rm'.deduplicationMap
            /\ rm'.deduplicationMap[key] = rm.deduplicationMap[key]]_vars

\* ======================================== CircuitBreaker claims (late outcomes)
\* C35: the outcome of an operation admitted while closed that settles
\* while the breaker is half-open leaves successCount and the state alone:
\* its success is not counted toward successThreshold and its failure does
\* not re-open the breaker
C35_StaleOutcomesIgnored ==
  [][/\ (OperationSucceeds("closed") /\ cb.state = "half-open") =>
           (cb'.successCount = cb.successCount /\ cb'.state = "half-open")
     /\ \A err \in ErrorKinds :
           (OperationFails("closed", err) /\ cb.state = "half-open") =>
              cb'.state = "half-open"]_vars

\* C36: while the breaker is closed, failureCount changes only with a
\* recorded outcome or an explicit reset()/forceClose(); in particular not
\* with the reset timer of an earlier open()
C36_ClosedFailureCountFrame ==
  [][(cb.state = "closed" /\ cb'.failureCount # cb.failureCount) =>
        cbObs'.last.op \in {"success", "failure", "reset", "forceClose"}]_vars

\* ======================================== TokenManager claims (removal)
\* C37: a token that is absent (removed, or never added) becomes present
\* only by addToken(name): a refresh that was started before the removal
\* does not bring the record back when it completes
C37_RemovalIsFinal ==
  [][\A name \in TokenNames :
       (~Has(tm.tokens, name) /\ Has(tm'.tokens, name)) =>
          \E cfg \in TokenConfigs : AddToken(name, cfg)]_vars

\* ======================================== TokenManager claims (rotation)
\* C39: when rotateToken() returns a record, that record and the token that
\* is primary afterwards are both valid at the time of the call
C39_RotationKeepsValidPrimary ==
  [][(RotateTokenCall /\ rot'.returned # NoToken) =>
        /\ IsTokenValid(rot'.returned, now)
        /\ GetToken(tm', tm'.primaryToken) # NoToken
        /\ IsTokenValid(GetToken(tm', tm'.primaryToken), now)]_vars

\* ======================================== CacheManager claims (interleaving)
\* C38: when a suspended get(key) that had read an expired entry goes on,
\* an entry of that key which is in the store and not expired (written by a
\* set since the get read the store) is still in the store afterwards
C38_FreshEntrySurvivesLateGet ==
  [][\A g \in 1..MaxPendingGets :
       GetResumes(g) =>
         \A s \in Storages :
           LET old == gets[g].read[s]
               e == GetEntry(cm[s], gets[g].key)
           IN (/\ old # NoEntry /\ IsExpired(old, gets[g].started)
               /\ e # NoEntry /\ ~IsExpired(e, now)) =>
                 GetEntry(cm'[s], gets[g].key) = e]_vars

\* ======================================== MiddlewareManager claims
\* C40: executeErrorMiddlewares never resolves with an undefined response:
\* it resolves with a response a middleware supplied or rejects
C40_NeverResolvesUndefined == mw.call.result # "undefined"

\* ======================================== Service pipeline claims
\* C31: every transport attempt of a service request has been through a
\* circuit-breaker admission check and a request-manager admission: the
\* breaker and the manager have counted at least as many requests as the
\* service has made attempts
C31_AttemptsPassBreakerAndManager ==
  \A c \in 1..MaxServiceCalls :
    /\ cb.totalRequests >= calls[c].invocations
    /\ rm.stats.totalRequests + rm.stats.deduplicatedRequests >= calls[c].invocations

====
